---------------------------- MODULE Spec2Model ----------------------------
(***************************************************************************)
(* Verification model of the GraphLab distributed runtime core:            *)
(*   - queued_fifo_scheduler (approximate-FIFO multi-queue scheduler)      *)
(*   - distributed_graph ghost synchronization (version-gated pull)        *)
(*   - graph_local_store record updates                                    *)
(***************************************************************************)
EXTENDS Integers, Sequences, FiniteSets, TLC

VARIABLES
  \* ---- queued_fifo_scheduler ----
  messages,      \* vertex_map<message_type>: vid -> [has, prio]
  master_queue,  \* std::deque<queue_type>
  in_queues,     \* std::vector<queue_type>, one per cpu
  out_queues,    \* std::vector<queue_type>, one per cpu
  started,       \* start() has run (worker threads exist)
  late,          \* history: a schedule or place call was made after start()
  pc,            \* position of each worker inside get_next
  ret,           \* the value most recently returned by a get_next call
  enq,           \* schedule calls between messages.add and the push: vid -> count
  ncalls,        \* number of schedule/place calls made so far
  hist,          \* history: priorities added to v's current entry, in order
  handed,        \* history: NEW_TASK returns of v's latest entry
  clean,         \* history: v touched by schedule(v, m) and get_next only
  owedCall,      \* history: schedule(v, m) called, no get_next returned v since
  bySched,       \* history: v's entry was created by schedule(v, m), not yet returned
  \* ---- distributed_graph / graph_local_store ----
  store,         \* localstore of each machine: entity -> vdata_store / edata_store
  canonical,     \* edge_canonical_numbering
  reqs,          \* one-way calls in flight to the owner (async_get_*_if_version_less_than)
  reps,          \* one-way replies in flight to each ghost machine (reply_*)
  pending,       \* pending_async_updates of each machine
  waiting,       \* position of each machine's caller in wait_for_all_async_syncs
  fatal,         \* an assertion failed: the process aborted
  synced,        \* history: synchronize_vertex returned on m, no write to the vertex since
  \* ---- one call of an owner-side primitive ----
  prim,
  \* ---- distributed_graph accessors ----
  acc,           \* the accessor call made last: operation, caller, arguments, result
  oneway,        \* one-way set_* calls in flight to the owner
  everSync,      \* history: a synchronization call has been made
  \* ---- construct_local_fragment ----
  boot,          \* atom files, partition and what each machine has built and published
  \* ---- graph_local_store structure ----
  ls,            \* edges, in_edges, out_edges, vcolors, finalized
  lsres,         \* the call made last on the store and its result
  \* ---- graph_local_store save / load ----
  ar,            \* a store, the archive save wrote from it, the store load read back
  \* ---- graph_local_store locks ----
  lk,            \* records, locks and the position of each thread in its call
  \* ---- queued_fifo_scheduler locks ----
  sl             \* master_lock, in_queue_locks and the position of each thread in its call

schedVars == <<messages, master_queue, in_queues, out_queues, started, late, pc, ret,
               enq, ncalls, hist, handed, clean, owedCall, bySched>>

syncVars == <<store, canonical, reqs, reps, pending, waiting, fatal, synced>>

accVars == <<acc, oneway, everSync>>

lsVars == <<ls, lsres>>

vars == <<schedVars, syncVars, prim, accVars, boot, lsVars, ar, lk, sl>>

\* what the operations of one component leave alone
notSched == <<syncVars, prim, accVars, boot, lsVars, ar, lk, sl>>

notSync == <<schedVars, prim, accVars, boot, lsVars, ar, lk, sl>>

notPrim == <<schedVars, syncVars, accVars, boot, lsVars, ar, lk, sl>>

notAcc == <<schedVars, prim, boot, lsVars, ar, lk, sl>>

notBoot == <<schedVars, syncVars, prim, accVars, lsVars, ar, lk, sl>>

notLs == <<schedVars, syncVars, prim, accVars, boot, ar, lk, sl>>

notAr == <<schedVars, syncVars, prim, accVars, boot, lsVars, lk, sl>>

notLk == <<schedVars, syncVars, prim, accVars, boot, lsVars, ar, sl>>

\* what a step of a scheduler call leaves alone: the other components and the
\* history of the scheduler
notSl == <<syncVars, prim, accVars, boot, lsVars, ar, lk>>

schedHist == <<late, pc, ret, enq, hist, handed, clean, owedCall, bySched>>

-----------------------------------------------------------------------------
\* Bounds of the scheduler model
NumCpus == 2
MaxCalls == 2
QueueSize == 1

\* vertex IDs of the graph the scheduler was built for
Vertices == {0, 1}
Cpus == 0 .. (NumCpus - 1)
\* priorities in units of 0.5: 1.0 and 2.5
Prios == {2, 5}

RECURSIVE SumSeq(_)
SumSeq(s) == IF s = <<>> THEN 0 ELSE Head(s) + SumSeq(Tail(s))

RECURSIVE Occurs(_, _)
Occurs(s, v) ==
  IF s = <<>> THEN 0
  ELSE (IF Head(s) = v THEN 1 ELSE 0) + Occurs(Tail(s), v)

RECURSIVE OccursIn(_, _)
OccursIn(qs, v) ==
  IF qs = <<>> THEN 0 ELSE Occurs(Head(qs), v) + OccursIn(Tail(qs), v)

RECURSIVE OccursUpTo(_, _, _)
OccursUpTo(queues, v, i) ==
  IF i >= NumCpus THEN 0 ELSE Occurs(queues[i], v) + OccursUpTo(queues, v, i + 1)

\* a flush in decreasing worker-index order
RECURSIVE FlushDown(_, _, _)
FlushDown(master, queues, i) ==
  IF i >= NumCpus THEN master
  ELSE Append(FlushDown(master, queues, i + 1), queues[i])

RECURSIVE Flush(_, _, _)
Flush(master, queues, i) ==
  IF i >= NumCpus THEN master
  ELSE Flush(Append(master, queues[i]), queues, i + 1)

-----------------------------------------------------------------------------
\* messages::sum::operator+=
sum_max(a, b) == IF a >= b THEN a ELSE b

sum_plus_eq(a, b) == a + b

\* the constructor's initial value of sub_queue_size
DefaultQueueSize == 100

\* no "queuesize" option was given
NoOption == [has |-> FALSE, value |-> 0]

\* options_map::get_option(key, value): value is overwritten when the option
\* is present and kept otherwise
get_option(opts, value) == IF opts.has THEN opts.value ELSE value

\* queued_fifo_scheduler(num_vertices, ncpus, opts): sub_queue_size(100),
\* opts.get_option("queuesize", sub_queue_size)
queued_fifo_scheduler(opts) == get_option(opts, DefaultQueueSize)

\* the queue size option read by the constructor
sub_queue_size == queued_fifo_scheduler([has |-> TRUE, value |-> QueueSize])

\* vertex_map::add: true iff the vertex had no message
vm_add(m, v, p) ==
  IF m[v].has
  THEN [map |-> [m EXCEPT ![v].prio = sum_plus_eq(m[v].prio, p)], isnew |-> FALSE]
  ELSE [map |-> [m EXCEPT ![v] = [has |-> TRUE, prio |-> p]], isnew |-> TRUE]

\* vertex_map::has_task
vm_has_task(m, v) == m[v].has

\* vertex_map::test_and_get: atomically removes and returns the message
vm_test_and_get(m, v) ==
  IF m[v].has
  THEN [map |-> [m EXCEPT ![v] = [has |-> FALSE, prio |-> 0]],
        ok |-> TRUE, prio |-> m[v].prio]
  ELSE [map |-> m, ok |-> FALSE, prio |-> 0]

NoRet == [status |-> "NONE", vid |-> 0, prio |-> 0, hist |-> <<>>]

InitSched ==
  /\ messages = [v \in Vertices |-> [has |-> FALSE, prio |-> 0]]
  /\ master_queue = <<>>
  /\ in_queues = [c \in Cpus |-> <<>>]
  /\ out_queues = [c \in Cpus |-> <<>>]
  /\ started = FALSE
  /\ late = FALSE
  /\ pc = [c \in Cpus |-> "master"]
  /\ ret = NoRet
  /\ enq = [v \in Vertices |-> 0]
  /\ ncalls = 0
  /\ hist = [v \in Vertices |-> <<>>]
  /\ handed = [v \in Vertices |-> 0]
  /\ clean = [v \in Vertices |-> TRUE]
  /\ owedCall = [v \in Vertices |-> FALSE]
  /\ bySched = [v \in Vertices |-> FALSE]

\* start(): every in_queue, empty or not, is appended to the master queue
Start ==
  /\ ~started
  /\ \A v \in Vertices : enq[v] = 0
  /\ started' = TRUE
  /\ master_queue' = Flush(master_queue, in_queues, 0)
  /\ in_queues' = [c \in Cpus |-> <<>>]
  /\ UNCHANGED <<late, messages, out_queues, pc, ret, enq, ncalls, hist, handed,
                 clean, owedCall, bySched>>
  /\ UNCHANGED notSched

\* schedule(vid, msg), first part: messages.add(vid, msg)
ScheduleAdd(v, p) ==
  /\ ncalls < MaxCalls
  /\ ncalls' = ncalls + 1
  /\ late' = (late \/ started)
  /\ LET r == vm_add(messages, v, p) IN
       /\ messages' = r.map
       /\ enq' = IF r.isnew THEN [enq EXCEPT ![v] = @ + 1] ELSE enq
       /\ hist' = [hist EXCEPT ![v] = IF r.isnew THEN <<p>> ELSE Append(@, p)]
       /\ handed' = IF r.isnew THEN [handed EXCEPT ![v] = 0] ELSE handed
       /\ bySched' = IF r.isnew THEN [bySched EXCEPT ![v] = TRUE] ELSE bySched
  /\ owedCall' = [owedCall EXCEPT ![v] = TRUE]
  /\ UNCHANGED <<master_queue, in_queues, out_queues, started, pc, ret, clean>>
  /\ UNCHANGED notSched

\* schedule(vid): queues vid again when it has a message
ScheduleVid(v) ==
  /\ ncalls < MaxCalls
  /\ ncalls' = ncalls + 1
  /\ late' = (late \/ started)
  /\ vm_has_task(messages, v)
  /\ enq' = [enq EXCEPT ![v] = @ + 1]
  /\ clean' = [clean EXCEPT ![v] = FALSE]
  /\ UNCHANGED <<messages, master_queue, in_queues, out_queues, started, pc,
                 ret, hist, handed, owedCall, bySched>>
  /\ UNCHANGED notSched

\* a schedule that flushes as soon as the queue holds sub_queue_size entries
EnqueueAtThreshold(v, cpuid) ==
  /\ enq[v] > 0
  /\ enq' = [enq EXCEPT ![v] = @ - 1]
  /\ LET queue == Append(in_queues[cpuid], v) IN
       IF Len(queue) >= sub_queue_size
       THEN /\ master_queue' = Append(master_queue, queue)
            /\ in_queues' = [in_queues EXCEPT ![cpuid] = <<>>]
       ELSE /\ in_queues' = [in_queues EXCEPT ![cpuid] = queue]
            /\ UNCHANGED master_queue
  /\ UNCHANGED <<late, messages, out_queues, started, pc, ret, ncalls, hist, handed,
                 clean, owedCall, bySched>>
  /\ UNCHANGED notSched

\* schedule, second part: the section under in_queue_locks[cpuid]
Enqueue(v, cpuid) ==
  /\ enq[v] > 0
  /\ enq' = [enq EXCEPT ![v] = @ - 1]
  /\ LET queue == Append(in_queues[cpuid], v) IN
       IF Len(queue) > sub_queue_size
       THEN /\ master_queue' = Append(master_queue, queue)
            /\ in_queues' = [in_queues EXCEPT ![cpuid] = <<>>]
       ELSE /\ in_queues' = [in_queues EXCEPT ![cpuid] = queue]
            /\ UNCHANGED master_queue
  /\ UNCHANGED <<late, messages, out_queues, started, pc, ret, ncalls, hist, handed,
                 clean, owedCall, bySched>>
  /\ UNCHANGED notSched

\* place(vid, msg): messages.add only, nothing is queued
Place(v, p) ==
  /\ ncalls < MaxCalls
  /\ ncalls' = ncalls + 1
  /\ late' = (late \/ started)
  /\ LET r == vm_add(messages, v, p) IN
       /\ messages' = r.map
       /\ hist' = [hist EXCEPT ![v] = IF r.isnew THEN <<p>> ELSE Append(@, p)]
       /\ handed' = IF r.isnew THEN [handed EXCEPT ![v] = 0] ELSE handed
       /\ bySched' = IF r.isnew THEN [bySched EXCEPT ![v] = FALSE] ELSE bySched
  /\ clean' = [clean EXCEPT ![v] = FALSE]
  /\ UNCHANGED <<master_queue, in_queues, out_queues, started, pc, ret, enq,
                 owedCall>>
  /\ UNCHANGED notSched

\* get_specific(vid, ret_msg)
GetSpecific(v) ==
  /\ started
  /\ LET r == vm_test_and_get(messages, v) IN
       /\ r.ok
       /\ messages' = r.map
       /\ handed' = [handed EXCEPT ![v] = @ + 1]
       /\ bySched' = IF r.prio = SumSeq(hist[v])
                     THEN [bySched EXCEPT ![v] = FALSE] ELSE bySched
  /\ hist' = [hist EXCEPT ![v] = <<>>]
  /\ clean' = [clean EXCEPT ![v] = FALSE]
  /\ UNCHANGED <<late, master_queue, in_queues, out_queues, started, pc, ret, enq,
                 ncalls, owedCall>>
  /\ UNCHANGED notSched

\* get_next, section under master_lock
GetNextMaster(w) ==
  /\ started
  /\ pc[w] = "master"
  /\ pc' = [pc EXCEPT ![w] = "inq"]
  /\ IF out_queues[w] = <<>> /\ master_queue # <<>>
     THEN /\ out_queues' = [out_queues EXCEPT ![w] = Head(master_queue)]
          /\ master_queue' = Tail(master_queue)
     ELSE UNCHANGED <<out_queues, master_queue>>
  /\ UNCHANGED <<late, messages, in_queues, started, ret, enq, ncalls, hist, handed,
                 clean, owedCall, bySched>>
  /\ UNCHANGED notSched

\* a get_next that never looks at its own in_queue
GetNextInqSkip(w) ==
  /\ pc[w] = "inq"
  /\ pc' = [pc EXCEPT ![w] = "pop"]
  /\ UNCHANGED <<late, messages, master_queue, in_queues, out_queues, started, ret,
                 enq, ncalls, hist, handed, clean, owedCall, bySched>>
  /\ UNCHANGED notSched

\* get_next, section under in_queue_locks[cpuid]
GetNextInq(w) ==
  /\ pc[w] = "inq"
  /\ pc' = [pc EXCEPT ![w] = "pop"]
  /\ IF out_queues[w] = <<>> /\ in_queues[w] # <<>>
     THEN /\ out_queues' = [out_queues EXCEPT ![w] = in_queues[w]]
          /\ in_queues' = [in_queues EXCEPT ![w] = <<>>]
     ELSE UNCHANGED <<out_queues, in_queues>>
  /\ UNCHANGED <<late, messages, master_queue, started, ret, enq, ncalls, hist,
                 handed, clean, owedCall, bySched>>
  /\ UNCHANGED notSched

\* a get_next that reads the message and leaves it in the map
GetNextPopKeep(w) ==
  /\ pc[w] = "pop"
  /\ pc' = [pc EXCEPT ![w] = "master"]
  /\ IF out_queues[w] # <<>>
     THEN LET v == Head(out_queues[w]) IN
            /\ out_queues' = [out_queues EXCEPT ![w] = Tail(@)]
            /\ IF vm_has_task(messages, v)
               THEN /\ ret' = [status |-> "NEW_TASK", vid |-> v,
                               prio |-> messages[v].prio, hist |-> hist[v]]
                    /\ handed' = [handed EXCEPT ![v] = @ + 1]
               ELSE UNCHANGED <<ret, handed>>
     ELSE /\ ret' = [NoRet EXCEPT !.status = "EMPTY"]
          /\ UNCHANGED <<out_queues, handed>>
  /\ UNCHANGED <<late, messages, master_queue, in_queues, started, enq, ncalls, hist,
                 clean, owedCall, bySched>>
  /\ UNCHANGED notSched

\* a get_next that returns EMPTY when the entry it popped is stale
GetNextPopStaleEmpty(w) ==
  /\ pc[w] = "pop"
  /\ pc' = [pc EXCEPT ![w] = "master"]
  /\ IF out_queues[w] # <<>>
     THEN LET v == Head(out_queues[w])
              r == vm_test_and_get(messages, v)
              good == r.prio = SumSeq(hist[v])
          IN
            /\ out_queues' = [out_queues EXCEPT ![w] = Tail(@)]
            /\ messages' = r.map
            /\ IF r.ok
               THEN /\ ret' = [status |-> "NEW_TASK", vid |-> v,
                               prio |-> r.prio, hist |-> hist[v]]
                    /\ handed' = [handed EXCEPT ![v] = @ + 1]
                    /\ hist' = [hist EXCEPT ![v] = <<>>]
                    /\ owedCall' = IF good THEN [owedCall EXCEPT ![v] = FALSE]
                                   ELSE owedCall
                    /\ bySched' = IF good THEN [bySched EXCEPT ![v] = FALSE]
                                  ELSE bySched
               ELSE /\ ret' = [NoRet EXCEPT !.status = "EMPTY"]
                    /\ UNCHANGED <<handed, hist, owedCall, bySched>>
     ELSE /\ ret' = [NoRet EXCEPT !.status = "EMPTY"]
          /\ UNCHANGED <<messages, out_queues, handed, hist, owedCall, bySched>>
  /\ UNCHANGED <<late, master_queue, in_queues, started, enq, ncalls, clean>>
  /\ UNCHANGED notSched

\* get_next, the pop of out_queues[cpuid] and messages.test_and_get
GetNextPop(w) ==
  /\ pc[w] = "pop"
  /\ pc' = [pc EXCEPT ![w] = "master"]
  /\ IF out_queues[w] # <<>>
     THEN LET v == Head(out_queues[w])
              r == vm_test_and_get(messages, v)
              good == r.prio = SumSeq(hist[v])
          IN
            /\ out_queues' = [out_queues EXCEPT ![w] = Tail(@)]
            /\ messages' = r.map
            /\ IF r.ok
               THEN /\ ret' = [status |-> "NEW_TASK", vid |-> v,
                               prio |-> r.prio, hist |-> hist[v]]
                    /\ handed' = [handed EXCEPT ![v] = @ + 1]
                    /\ hist' = [hist EXCEPT ![v] = <<>>]
                    /\ owedCall' = IF good THEN [owedCall EXCEPT ![v] = FALSE]
                                   ELSE owedCall
                    /\ bySched' = IF good THEN [bySched EXCEPT ![v] = FALSE]
                                  ELSE bySched
               ELSE UNCHANGED <<ret, handed, hist, owedCall, bySched>>
     ELSE /\ ret' = [NoRet EXCEPT !.status = "EMPTY"]
          /\ UNCHANGED <<messages, out_queues, handed, hist, owedCall, bySched>>
  /\ UNCHANGED <<late, master_queue, in_queues, started, enq, ncalls, clean>>
  /\ UNCHANGED notSched

GetNext(w) == GetNextMaster(w) \/ GetNextInq(w) \/ GetNextPop(w)

NextSched ==
  \/ Start
  \/ \E v \in Vertices, p \in Prios : ScheduleAdd(v, p)
  \/ \E v \in Vertices : ScheduleVid(v)
  \/ \E v \in Vertices, c \in Cpus : Enqueue(v, c)
  \/ \E v \in Vertices, p \in Prios : Place(v, p)
  \/ \E v \in Vertices : GetSpecific(v)
  \/ \E w \in Cpus : GetNextMaster(w)
  \/ \E w \in Cpus : GetNextInq(w)
  \/ \E w \in Cpus : GetNextPop(w)

\* Workers keep calling get_next, schedule calls in progress complete, and the
\* engine calls start().
FairSched ==
  /\ WF_vars(Start)
  /\ WF_vars(\E v \in Vertices, c \in Cpus : Enqueue(v, c))
  /\ \A w \in Cpus : WF_vars(GetNext(w))


-----------------------------------------------------------------------------
\* distributed_graph: ghost synchronization over graph_local_store records

\* Bounds of the synchronization model
MaxVersion == 2
MaxAsync == 1

\* machine 0 owns the vertex and the edge into it; the others hold ghosts
Owner == 0
Ghosts == {1}
Machines == {Owner} \cup Ghosts
\* one vertex (local vid 0) and one edge whose target it is (local eid 0)
Ents == {"v", "e"}
Payloads == {0, 1}
Versions == 0 .. MaxVersion

\* conditional_store with hasdata = false: data is not serialized
NoData == [hasdata |-> FALSE, data |-> 0, version |-> 0]

\* graph_local_store::set_vertex_version
set_vertex_version(r, version) ==
  [r EXCEPT !.version = version, !.snapshot_made = FALSE]

\* graph_local_store::set_edge_version
set_edge_version(r, version) ==
  [r EXCEPT !.version = version, !.snapshot_made = FALSE]

\* graph_local_store::increment_and_update_vertex
increment_and_update_vertex(r, data) ==
  [r EXCEPT !.data = data, !.version = @ + 1, !.snapshot_made = FALSE]

\* graph_local_store::increment_and_update_edge
increment_and_update_edge(r, data) ==
  [r EXCEPT !.data = data, !.version = @ + 1, !.snapshot_made = FALSE]

\* a conditional update that refuses an equal version
conditional_update_vertex_strict(r, data, version) ==
  IF r.version < version
  THEN [data |-> data, version |-> version, modified |-> FALSE,
        snapshot_made |-> FALSE]
  ELSE r

\* graph_local_store::conditional_update_vertex
conditional_update_vertex(r, data, version) ==
  IF r.version <= version
  THEN [data |-> data, version |-> version, modified |-> FALSE,
        snapshot_made |-> FALSE]
  ELSE r

\* graph_local_store::conditional_update_edge
conditional_update_edge(r, data, version) ==
  IF r.version <= version
  THEN [data |-> data, version |-> version, modified |-> FALSE,
        snapshot_made |-> FALSE]
  ELSE r

\* an owner that also answers when the versions are equal
get_vertex_if_version_less_than_geq(r, vertexversion, vdata) ==
  IF r.version >= vertexversion
  THEN [store |-> r, fatal |-> FALSE,
        ret |-> [hasdata |-> TRUE, data |-> r.data, version |-> r.version]]
  ELSE IF vdata.hasdata
       THEN [store |-> set_vertex_version([r EXCEPT !.data = vdata.data],
                                          vertexversion),
             fatal |-> FALSE, ret |-> NoData]
       ELSE [store |-> r, fatal |-> TRUE, ret |-> NoData]

\* distributed_graph::get_vertex_if_version_less_than, run on the owner's record
get_vertex_if_version_less_than(r, vertexversion, vdata) ==
  IF r.version > vertexversion
  THEN [store |-> r, fatal |-> FALSE,
        ret |-> [hasdata |-> TRUE, data |-> r.data, version |-> r.version]]
  ELSE IF r.version < vertexversion
       THEN IF vdata.hasdata
            THEN [store |-> set_vertex_version([r EXCEPT !.data = vdata.data],
                                               vertexversion),
                  fatal |-> FALSE, ret |-> NoData]
            ELSE [store |-> r, fatal |-> TRUE, ret |-> NoData]
       ELSE [store |-> r, fatal |-> FALSE, ret |-> NoData]

\* distributed_graph::get_edge_if_version_less_than (by edge ID)
get_edge_if_version_less_than(r, edgeversion, edata) ==
  IF r.version > edgeversion
  THEN [store |-> r, fatal |-> FALSE,
        ret |-> [hasdata |-> TRUE, data |-> r.data, version |-> r.version]]
  ELSE IF r.version < edgeversion
       THEN IF edata.hasdata
            THEN [store |-> set_edge_version([r EXCEPT !.data = edata.data],
                                             edgeversion),
                  fatal |-> FALSE, ret |-> NoData]
            ELSE [store |-> r, fatal |-> TRUE, ret |-> NoData]
       ELSE [store |-> r, fatal |-> FALSE, ret |-> NoData]

\* distributed_graph::get_edge_if_version_less_than2 (by source, target; the
\* edge is found in the owner's store)
get_edge_if_version_less_than2(r, edgeversion, edata) ==
  IF r.version > edgeversion
  THEN [store |-> r, fatal |-> FALSE,
        ret |-> [hasdata |-> TRUE, data |-> r.data, version |-> r.version]]
  ELSE IF r.version < edgeversion
       THEN IF edata.hasdata
            THEN [store |-> set_edge_version([r EXCEPT !.data = edata.data],
                                             edgeversion),
                  fatal |-> FALSE, ret |-> NoData]
            ELSE [store |-> r, fatal |-> TRUE, ret |-> NoData]
       ELSE [store |-> r, fatal |-> FALSE, ret |-> NoData]

\* distributed_graph::update_vertex_data_and_version
update_vertex_data_and_version(r, vstore) ==
  IF vstore.hasdata
  THEN [r EXCEPT !.data = vstore.data, !.version = vstore.version]
  ELSE r

\* distributed_graph::update_edge_data_and_version and ..._version2
update_edge_data_and_version(r, estore) ==
  IF estore.hasdata
  THEN [r EXCEPT !.data = estore.data, !.version = estore.version]
  ELSE r

\* the conditional_store a caller sends: its payload only when modified
OutStore(r) ==
  [hasdata |-> r.modified, data |-> IF r.modified THEN r.data ELSE 0,
   version |-> 0]

\* the edge primitive synchronize_edge requests
EdgePrimitive == IF canonical THEN "edge2" ELSE "edge"

\* the primitive the owner runs for entity x
OwnerPrimitive(x, r, version, st) ==
  IF x = "v" THEN get_vertex_if_version_less_than(r, version, st)
  ELSE IF EdgePrimitive = "edge2"
       THEN get_edge_if_version_less_than2(r, version, st)
       ELSE get_edge_if_version_less_than(r, version, st)

\* the merge of a reply into the caller's record
Merge(x, r, st) ==
  IF x = "v" THEN update_vertex_data_and_version(r, st)
  ELSE update_edge_data_and_version(r, st)

\* the version a caller sends for entity x: synchronize_edge reads
\* localstore.vertex_version(localeid), the version of the vertex whose local
\* ID equals the edge's local ID
SentVersion(m, x) == store[m]["v"].version

\* one-way calls and replies of machine m that have not been processed
Outstanding(m) ==
  Len(SelectSeq(reqs, LAMBDA q : q.src = m)) + Len(reps[m])

\* asynchronous synchronizations machine m has issued so far
Issued(m) == Outstanding(m) - pending[m]

\* after a write to x no replica of the vertex counts as synchronized
Unsync(x) == IF x = "v" THEN [m \in Ghosts |-> FALSE] ELSE synced

InitSync ==
  /\ store = [m \in Machines |-> [x \in Ents |->
               [data |-> 0, version |-> 0, modified |-> FALSE,
                snapshot_made |-> FALSE]]]
  /\ canonical \in BOOLEAN
  /\ reqs = <<>>
  /\ reps = [m \in Ghosts |-> <<>>]
  /\ pending = [m \in Ghosts |-> 0]
  /\ waiting = [m \in Ghosts |-> "no"]
  /\ fatal = FALSE
  /\ synced = [m \in Ghosts |-> FALSE]

\* localstore.increment_and_update_vertex / _edge on machine m
IncrementAndUpdate(m, x, data) ==
  /\ ~fatal
  /\ store[m][x].version < MaxVersion
  /\ store' = [store EXCEPT ![m][x] =
                 IF x = "v" THEN increment_and_update_vertex(@, data)
                 ELSE increment_and_update_edge(@, data)]
  /\ synced' = Unsync(x)
  /\ UNCHANGED <<canonical, reqs, reps, pending, waiting, fatal>>
  /\ UNCHANGED notSync

\* localstore.conditional_update_vertex / _edge on machine m
ConditionalUpdate(m, x, data, version) ==
  /\ ~fatal
  /\ store' = [store EXCEPT ![m][x] =
                 IF x = "v" THEN conditional_update_vertex(@, data, version)
                 ELSE conditional_update_edge(@, data, version)]
  /\ synced' = Unsync(x)
  /\ UNCHANGED <<canonical, reqs, reps, pending, waiting, fatal>>
  /\ UNCHANGED notSync

\* localstore.set_vertex_modified / set_edge_modified on machine m
SetModified(m, x, modified) ==
  /\ ~fatal
  /\ store' = [store EXCEPT ![m][x].modified = modified]
  /\ UNCHANGED <<canonical, reqs, reps, pending, waiting, fatal, synced>>
  /\ UNCHANGED notSync

\* set_vertex_data(vid, vdata) on machine m: the vertex is in m's fragment
SetVertexData(m, vdata) ==
  /\ ~fatal
  /\ store' = [store EXCEPT ![m]["v"].data = vdata]
  /\ synced' = Unsync("v")
  /\ UNCHANGED <<canonical, reqs, reps, pending, waiting, fatal>>
  /\ UNCHANGED notSync

\* synchronize_vertex(vid, async = false) on ghost machine m
SynchronizeVertex(m) ==
  /\ ~fatal
  /\ LET r == store[m]["v"]
         res == get_vertex_if_version_less_than(store[Owner]["v"], r.version,
                                                OutStore(r))
     IN  /\ fatal' = res.fatal
         /\ store' = IF res.fatal THEN store
                     ELSE [store EXCEPT
                             ![Owner]["v"] = res.store,
                             ![m]["v"] = update_vertex_data_and_version(r, res.ret)]
  /\ synced' = [synced EXCEPT ![m] = ~fatal']
  /\ UNCHANGED <<canonical, reqs, reps, pending, waiting>>
  /\ UNCHANGED notSync

\* synchronize_edge(eid, async = false) on ghost machine m
SynchronizeEdge(m) ==
  /\ ~fatal
  /\ LET r == store[m]["e"]
         res == OwnerPrimitive("e", store[Owner]["e"], SentVersion(m, "e"),
                               OutStore(r))
     IN  /\ fatal' = res.fatal
         /\ store' = IF res.fatal THEN store
                     ELSE [store EXCEPT
                             ![Owner]["e"] = res.store,
                             ![m]["e"] = update_edge_data_and_version(r, res.ret)]
  /\ UNCHANGED <<canonical, reqs, reps, pending, waiting, synced>>
  /\ UNCHANGED notSync

\* synchronize_vertex / synchronize_edge with async = true on ghost machine m:
\* the one-way call is fired; pending_async_updates is not touched
AsyncSynchronize(m, x) ==
  /\ ~fatal
  /\ waiting[m] # "waiting"
  /\ Issued(m) < MaxAsync
  /\ reqs' = Append(reqs, [src |-> m, x |-> x, version |-> SentVersion(m, x),
                           st |-> OutStore(store[m][x])])
  /\ UNCHANGED <<store, canonical, reps, pending, waiting, fatal, synced>>
  /\ UNCHANGED notSync

\* async_get_vertex_if_version_less_than / async_get_edge_if_version_less_than(2)
\* on the owner: run the primitive, reply with a one-way call
AsyncGet ==
  /\ ~fatal
  /\ reqs # <<>>
  /\ LET q == Head(reqs)
         res == OwnerPrimitive(q.x, store[Owner][q.x], q.version, q.st)
     IN  /\ fatal' = res.fatal
         /\ store' = IF res.fatal THEN store
                     ELSE [store EXCEPT ![Owner][q.x] = res.store]
         /\ reps' = IF res.fatal THEN reps
                    ELSE [reps EXCEPT ![q.src] = Append(@, [x |-> q.x, st |-> res.ret])]
         /\ synced' = Unsync(q.x)
  /\ reqs' = Tail(reqs)
  /\ UNCHANGED <<canonical, pending, waiting>>
  /\ UNCHANGED notSync

\* reply_vertex_data_and_version / reply_edge_data_and_version(2) on machine m
Reply(m) ==
  /\ ~fatal
  /\ reps[m] # <<>>
  /\ LET p == Head(reps[m]) IN
       /\ store' = [store EXCEPT ![m][p.x] = Merge(p.x, @, p.st)]
       /\ synced' = Unsync(p.x)
  /\ reps' = [reps EXCEPT ![m] = Tail(@)]
  \* pending_async_updates.dec(): the size_t is held as an integer congruent to
  \* it modulo 2^64, so 0 - 1 (that is 2^64 - 1) is held as -1
  /\ pending' = [pending EXCEPT ![m] = @ - 1]
  /\ UNCHANGED <<canonical, reqs, waiting, fatal>>
  /\ UNCHANGED notSync

\* wait_for_all_async_syncs() is called on machine m
WaitCall(m) ==
  /\ ~fatal
  /\ waiting[m] # "waiting"
  /\ waiting' = [waiting EXCEPT ![m] = "waiting"]
  /\ UNCHANGED <<store, canonical, reqs, reps, pending, fatal, synced>>
  /\ UNCHANGED notSync

\* wait_for_all_async_syncs() leaves its loop: pending_async_updates.value is 0
WaitReturn(m) ==
  /\ ~fatal
  /\ waiting[m] = "waiting"
  /\ pending[m] = 0
  /\ waiting' = [waiting EXCEPT ![m] = "returned"]
  /\ UNCHANGED <<store, canonical, reqs, reps, pending, fatal, synced>>
  /\ UNCHANGED notSync

NextSync ==
  \/ \E m \in Machines, x \in Ents, d \in Payloads : IncrementAndUpdate(m, x, d)
  \/ \E m \in Machines, x \in Ents, d \in Payloads, n \in Versions :
        ConditionalUpdate(m, x, d, n)
  \/ \E m \in Ghosts, x \in Ents, b \in BOOLEAN : SetModified(m, x, b)
  \/ \E m \in Machines, d \in Payloads : SetVertexData(m, d)
  \/ \E m \in Ghosts : SynchronizeVertex(m)
  \/ \E m \in Ghosts : SynchronizeEdge(m)
  \/ \E m \in Ghosts, x \in Ents : AsyncSynchronize(m, x)
  \/ AsyncGet
  \/ \E m \in Ghosts : Reply(m)
  \/ \E m \in Ghosts : WaitCall(m)
  \/ \E m \in Ghosts : WaitReturn(m)

\* The RPC layer delivers every one-way call, and a caller spinning in
\* wait_for_all_async_syncs keeps reading the counter.
FairSync ==
  /\ WF_vars(AsyncGet)
  /\ \A m \in Ghosts : WF_vars(Reply(m)) /\ WF_vars(WaitReturn(m))

-----------------------------------------------------------------------------
\* One call of an owner-side primitive on drawn inputs

PrimKinds == {"vertex", "edge", "edge2"}

Records ==
  [data : Payloads, version : Versions, modified : BOOLEAN,
   snapshot_made : BOOLEAN]

\* a conditional_store as received: data is present only with hasdata
InStores ==
  {NoData} \cup [hasdata : {TRUE}, data : Payloads, version : {0}]

\* no primitive call is being examined
PrimIdle ==
  [phase |-> "idle", kind |-> "vertex",
   owner |-> [data |-> 0, version |-> 0, modified |-> FALSE,
              snapshot_made |-> FALSE],
   version |-> 0, st |-> NoData, res |-> NoData, fatal |-> FALSE,
   after |-> [data |-> 0, version |-> 0, modified |-> FALSE,
              snapshot_made |-> FALSE]]

InitPrim ==
  \E k \in PrimKinds, r \in Records, n \in Versions, st \in InStores :
    prim = [phase |-> "call", kind |-> k, owner |-> r, version |-> n,
            st |-> st, res |-> NoData, fatal |-> FALSE, after |-> r]

PrimResult(res) ==
  [prim EXCEPT !.phase = "done", !.res = res.ret, !.fatal = res.fatal,
               !.after = res.store]

\* get_vertex_if_version_less_than(vid, vertexversion, vdata)
CallVertex ==
  /\ prim.phase = "call" /\ prim.kind = "vertex"
  /\ prim' = PrimResult(get_vertex_if_version_less_than(prim.owner, prim.version,
                                                        prim.st))
  /\ UNCHANGED notPrim

\* get_edge_if_version_less_than(eid, edgeversion, edata)
CallEdge ==
  /\ prim.phase = "call" /\ prim.kind = "edge"
  /\ prim' = PrimResult(get_edge_if_version_less_than(prim.owner, prim.version,
                                                      prim.st))
  /\ UNCHANGED notPrim

\* get_edge_if_version_less_than2(source, target, edgeversion, edata)
CallEdge2 ==
  /\ prim.phase = "call" /\ prim.kind = "edge2"
  /\ prim' = PrimResult(get_edge_if_version_less_than2(prim.owner, prim.version,
                                                       prim.st))
  /\ UNCHANGED notPrim

NextPrim == CallVertex \/ CallEdge \/ CallEdge2

-----------------------------------------------------------------------------
\* distributed_graph: routing of the data accessors

\* machines whose fragment holds neither the vertex nor the edge
Outsiders == {2}
Callers == Machines \cup Outsiders

\* global_vid_in_local_fragment(vid) / global_eid_in_local_fragment(eid) on
\* machine c: the owner and the ghost holders have the vertex, the edge and the
\* edge's source in their fragment
InFragment(c) == c \in Machines

\* localvid2owner[localvid] == rmi.procid() on machine c
OwnsLocally(c) == c = Owner

Acc(op, c, x, val, result, rpcs) ==
  [op |-> op, caller |-> c, x |-> x, val |-> val, ret |-> result, rpcs |-> rpcs]

NoAcc == Acc("none", Owner, "v", 0, 0, 0)

\* a record as loaded, or as written since by the owner at a newer version
Loaded(version) ==
  [data |-> version, version |-> version, modified |-> FALSE,
   snapshot_made |-> FALSE]

\* Fragments after construct_local_fragment and some updates on the owner that
\* no ghost has synchronized yet.
InitAccess ==
  /\ \E ov \in {0, 1}, oe \in {0, 1} :
       store = [m \in Machines |->
                  IF m = Owner THEN [x \in Ents |-> Loaded(IF x = "v" THEN ov ELSE oe)]
                  ELSE [x \in Ents |-> Loaded(0)]]
  /\ canonical \in BOOLEAN
  /\ reqs = <<>>
  /\ reps = [m \in Ghosts |-> <<>>]
  /\ pending = [m \in Ghosts |-> 0]
  /\ waiting = [m \in Ghosts |-> "no"]
  /\ fatal = FALSE
  /\ synced = [m \in Ghosts |-> FALSE]
  /\ acc = NoAcc
  /\ oneway = <<>>
  /\ everSync = FALSE

\* no accessor call has been made
AccIdle ==
  /\ acc = NoAcc
  /\ oneway = <<>>
  /\ everSync = FALSE

\* get_vertex_data(vid) on machine c
GetVertexData(c) ==
  /\ ~fatal
  /\ acc' = IF InFragment(c)
            THEN Acc("get_vertex_data", c, "v", 0, store[c]["v"].data, 0)
            ELSE Acc("get_vertex_data", c, "v", 0, store[Owner]["v"].data, 1)
  /\ UNCHANGED <<syncVars, oneway, everSync, notAcc>>

\* set_vertex_data(vid, vdata) / set_vertex_data_async(vid, vdata) on machine c
SetVertexDataCall(c, vdata, async) ==
  /\ ~fatal
  /\ (async /\ ~InFragment(c)) => Len(oneway) < MaxAsync
  /\ IF InFragment(c)
     THEN /\ store' = [store EXCEPT ![c]["v"].data = vdata]
          /\ acc' = Acc(IF async THEN "set_vertex_data_async" ELSE "set_vertex_data",
                        c, "v", vdata, 0, 0)
          /\ UNCHANGED oneway
     ELSE IF async
     THEN /\ oneway' = Append(oneway, [x |-> "v", data |-> vdata])
          /\ acc' = Acc("set_vertex_data_async", c, "v", vdata, 0, 1)
          /\ UNCHANGED store
     ELSE /\ store' = [store EXCEPT ![Owner]["v"].data = vdata]
          /\ acc' = Acc("set_vertex_data", c, "v", vdata, 0, 1)
          /\ UNCHANGED oneway
  /\ UNCHANGED <<canonical, reqs, reps, pending, waiting, fatal, synced,
                 everSync, notAcc>>

\* get_edge_data(source, target) = get_edge_data_from_pair on machine c
GetEdgeDataFromPair(c) ==
  /\ ~fatal
  /\ acc' = IF InFragment(c)
            THEN Acc("get_edge_data", c, "e", 0, store[c]["e"].data, 0)
            ELSE Acc("get_edge_data", c, "e", 0, store[Owner]["e"].data, 1)
  /\ UNCHANGED <<syncVars, oneway, everSync, notAcc>>

\* set_edge_data(source, target, edata) / set_edge_data_async =
\* set_edge_data_from_pair(source, target, edata, async) on machine c
SetEdgeDataFromPair(c, edata, async) ==
  /\ ~fatal
  /\ (async /\ ~OwnsLocally(c)) => Len(oneway) < MaxAsync
  /\ IF OwnsLocally(c)
     THEN /\ store' = [store EXCEPT ![c]["e"].data = edata]
          /\ acc' = Acc(IF async THEN "set_edge_data_async" ELSE "set_edge_data",
                        c, "e", edata, 0, 0)
          /\ UNCHANGED oneway
     ELSE IF async
     THEN /\ oneway' = Append(oneway, [x |-> "e", data |-> edata])
          /\ acc' = Acc("set_edge_data_async", c, "e", edata, 0, 1)
          /\ UNCHANGED store
     ELSE /\ store' = [store EXCEPT ![Owner]["e"].data = edata]
          /\ acc' = Acc("set_edge_data", c, "e", edata, 0, 1)
          /\ UNCHANGED oneway
  /\ UNCHANGED <<canonical, reqs, reps, pending, waiting, fatal, synced,
                 everSync, notAcc>>

\* the owner runs a one-way set_vertex_data_async / set_edge_data_from_pair /
\* set_edge_data_from_eid call: the entity is its own, it writes locally
DeliverSet ==
  /\ ~fatal
  /\ oneway # <<>>
  /\ store' = [store EXCEPT ![Owner][Head(oneway).x].data = Head(oneway).data]
  /\ oneway' = Tail(oneway)
  /\ acc' = Acc("deliver", Owner, Head(oneway).x, Head(oneway).data, 0, 0)
  /\ UNCHANGED <<canonical, reqs, reps, pending, waiting, fatal, synced,
                 everSync, notAcc>>

\* the operations that take a global edge ID and return a value
EidReads == {"source", "target", "rev_edge_id", "get_edge_data_from_eid"}

\* an edge-ID read that asks the owner without looking at the numbering mode
EdgeByEidUnchecked(c, op) ==
  /\ ~fatal
  /\ acc' = IF InFragment(c)
            THEN Acc(op, c, "e", 0,
                     IF op = "get_edge_data_from_eid" THEN store[c]["e"].data
                     ELSE 0, 0)
            ELSE Acc(op, c, "e", 0,
                     IF op = "get_edge_data_from_eid"
                     THEN store[Owner]["e"].data ELSE 0, 1)
  /\ UNCHANGED <<syncVars, oneway, everSync, notAcc>>

\* source(eid), target(eid), rev_edge_id(eid), get_edge_data_from_eid(eid) on
\* machine c: served from the fragment when the edge is in it, otherwise a
\* request to the edge's owner, refused under canonical numbering
EdgeByEid(c, op) ==
  /\ ~fatal
  /\ IF InFragment(c)
     THEN /\ acc' = Acc(op, c, "e", 0,
                        IF op = "get_edge_data_from_eid" THEN store[c]["e"].data
                        ELSE 0, 0)
          /\ UNCHANGED fatal
     ELSE IF canonical
     THEN /\ acc' = Acc(op, c, "e", 0, 0, 0)
          /\ fatal' = TRUE
     ELSE /\ acc' = Acc(op, c, "e", 0,
                        IF op = "get_edge_data_from_eid"
                        THEN store[Owner]["e"].data ELSE 0, 1)
          /\ UNCHANGED fatal
  /\ UNCHANGED <<store, canonical, reqs, reps, pending, waiting, synced,
                 oneway, everSync, notAcc>>

\* set_edge_data(eid, edata) / set_edge_data_async(eid, edata) =
\* set_edge_data_from_eid(eid, edata, async) on machine c
SetEdgeDataFromEid(c, edata, async) ==
  /\ ~fatal
  /\ (async /\ ~OwnsLocally(c) /\ ~canonical) => Len(oneway) < MaxAsync
  /\ IF InFragment(c) /\ OwnsLocally(c)
     THEN /\ store' = [store EXCEPT ![c]["e"].data = edata]
          /\ acc' = Acc("set_edge_data_from_eid", c, "e", edata, 0, 0)
          /\ UNCHANGED <<oneway, fatal>>
     ELSE IF canonical
     THEN /\ acc' = Acc("set_edge_data_from_eid", c, "e", edata, 0, 0)
          /\ fatal' = TRUE
          /\ UNCHANGED <<store, oneway>>
     ELSE IF async
     THEN /\ oneway' = Append(oneway, [x |-> "e", data |-> edata])
          /\ acc' = Acc("set_edge_data_from_eid", c, "e", edata, 0, 1)
          /\ UNCHANGED <<store, fatal>>
     ELSE /\ store' = [store EXCEPT ![Owner]["e"].data = edata]
          /\ acc' = Acc("set_edge_data_from_eid", c, "e", edata, 0, 1)
          /\ UNCHANGED <<oneway, fatal>>
  /\ UNCHANGED <<canonical, reqs, reps, pending, waiting, synced, everSync,
                 notAcc>>

\* synchronize_scope(vid) / async_synchronize_scope(vid) on ghost machine m:
\* the bodies are unfinished; nothing is requested and nothing is merged
SynchronizeScope(m) ==
  /\ ~fatal
  /\ acc' = Acc("synchronize_scope", m, "v", 0, 0, 0)
  /\ everSync' = TRUE
  /\ UNCHANGED <<syncVars, oneway, notAcc>>

NextAccess ==
  \/ \E c \in Callers : GetVertexData(c)
  \/ \E c \in Callers, d \in Payloads, async \in BOOLEAN :
        SetVertexDataCall(c, d, async)
  \/ \E c \in Callers : GetEdgeDataFromPair(c)
  \/ \E c \in Callers, d \in Payloads, async \in BOOLEAN :
        SetEdgeDataFromPair(c, d, async)
  \/ DeliverSet
  \/ \E c \in Callers, op \in EidReads : EdgeByEid(c, op)
  \/ \E c \in Callers, d \in Payloads, async \in BOOLEAN :
        SetEdgeDataFromEid(c, d, async)
  \/ \E m \in Ghosts : SynchronizeScope(m)

-----------------------------------------------------------------------------
\* Bootstrap: distributed_graph::construct_local_fragment
-----------------------------------------------------------------------------
\* The global graph is a path 0 -> 1 -> ... ; global edge e joins e and e+1.
\* The partitioner's output (atom files, atom index) is the input: atomOf
\* gives the atom each vertex belongs to, a2m the partition of each atom.
NumVerts == 3
NumAtoms == 3

BootVerts == 0 .. (NumVerts - 1)
BootEids == 0 .. (NumVerts - 2)
Atoms == 0 .. (NumAtoms - 1)
BootEdge(e) == <<e, e + 1>>

RECURSIVE SortedSeq(_)
SortedSeq(S) ==
  IF S = {} THEN <<>>
  ELSE LET x == CHOOSE y \in S : \A z \in S : y <= z
       IN <<x>> \o SortedSeq(S \ {x})

\* 0-based position of x in seq
IndexOf(seq, x) == (CHOOSE i \in 1 .. Len(seq) : seq[i] = x) - 1

\* seq[i] for a 0-based index i
At(seq, i) == seq[i + 1]

\* Atom file contract: the edges of atom a are those touching one of its
\* vertices; its vertices are its own and the boundary ones.
AtomEids(in, a) ==
  {e \in BootEids : in.atomOf[BootEdge(e)[1]] = a \/ in.atomOf[BootEdge(e)[2]] = a}

globaleids(in, a) == SortedSeq(AtomEids(in, a))

globalvids(in, a) ==
  SortedSeq({v \in BootVerts : in.atomOf[v] = a}
            \cup {BootEdge(e)[1] : e \in AtomEids(in, a)}
            \cup {BootEdge(e)[2] : e \in AtomEids(in, a)})

\* parallel to globaleids: atom-local (src, tgt) pairs
edge_src_dest(in, a) ==
  [j \in 1 .. Len(globaleids(in, a)) |->
     <<IndexOf(globalvids(in, a), BootEdge(globaleids(in, a)[j])[1]),
       IndexOf(globalvids(in, a), BootEdge(globaleids(in, a)[j])[2])>>]

\* for each atom-local vertex the atom it belongs to
atom(in, a) ==
  [j \in 1 .. Len(globalvids(in, a)) |-> in.atomOf[globalvids(in, a)[j]]]

\* partitiontoatom[m]: the atoms of partition m
atoms_in_curpart(in, m) == SortedSeq({a \in Atoms : in.a2m[a] = m})

\* The inputs: no atom is empty and no partition is empty.
BootInputs ==
  {in \in [atomOf : [BootVerts -> Atoms], a2m : [Atoms -> Machines]] :
     /\ \A a \in Atoms : \E v \in BootVerts : in.atomOf[v] = a
     /\ \A m \in Machines : \E a \in Atoms : in.a2m[a] = m}

BootStart(in) ==
  [in |-> in,
   pc |-> [m \in Machines |-> "start"],
   canonical_numbering |-> [m \in Machines |-> FALSE],
   local2globalvid |-> [m \in Machines |-> <<>>],
   local2globaleid |-> [m \in Machines |-> <<>>],
   add_edge |-> [m \in Machines |-> <<>>],
   localvid2owner |-> [m \in Machines |-> <<>>],
   added |-> [m \in Machines |-> {}],
   globalvid2owner |-> [v \in BootVerts |-> {}],
   globaleid2owner |-> [e \in BootEids |-> {}]]

NotBooted == <<>>

BootIdle == boot = NotBooted

InitBoot == boot \in {BootStart(in) : in \in BootInputs}

\* std::copy(..., std::back_inserter(...)) over the atoms: the sequences of
\* ss one after the other
RECURSIVE Cat(_)
Cat(ss) == IF ss = <<>> THEN <<>> ELSE Head(ss) \o Cat(Tail(ss))

\* std::sort on a vector of IDs
RECURSIVE std_sort(_)
std_sort(s) ==
  IF s = <<>> THEN <<>>
  ELSE LET i == CHOOSE k \in 1 .. Len(s) : \A j \in 1 .. Len(s) : s[k] <= s[j]
       IN <<s[i]>> \o std_sort(SubSeq(s, 1, i - 1) \o SubSeq(s, i + 1, Len(s)))

\* no removal of duplicates
std_unique_none(s) == s

\* std::unique and the resize that follows: of equal neighbours one is kept
RECURSIVE std_unique(_)
std_unique(s) ==
  IF Len(s) <= 1 THEN s
  ELSE IF s[1] = s[2] THEN std_unique(Tail(s))
       ELSE <<s[1]>> \o std_unique(Tail(s))

\* Loading ID maps, generating mappings: local2globalvid (local2globaleid) is
\* the concatenation of the atoms' globalvids (globaleids), sorted, with
\* duplicates removed; localvid2owner is resized (value-initialised to 0).
LoadIdMaps(m) ==
  /\ boot # NotBooted
  /\ boot.pc[m] = "start"
  /\ LET as == atoms_in_curpart(boot.in, m)
         l2g == std_unique(std_sort(Cat([i \in 1 .. Len(as) |->
                                          globalvids(boot.in, as[i])])))
         l2e == std_unique(std_sort(Cat([i \in 1 .. Len(as) |->
                                          globaleids(boot.in, as[i])])))
     IN boot' = [boot EXCEPT
          !.pc[m] = "structure",
          !.canonical_numbering[m] = (Len(globaleids(boot.in, as[1])) = 0),
          !.local2globalvid[m] = l2g,
          !.local2globaleid[m] = l2e,
          !.localvid2owner[m] = [i \in 1 .. Len(l2g) |-> 0]]
  /\ UNCHANGED notBoot

\* the reverse map built by "m[seq[i]] = i" for i = 0, 1, ...: the last
\* position of g
Reverse(seq, g) ==
  (CHOOSE i \in 1 .. Len(seq) :
     seq[i] = g /\ \A j \in (i + 1) .. Len(seq) : seq[j] # g) - 1

global2localvid(m, g) == Reverse(boot.local2globalvid[m], g)

global2localeid(m, g) == Reverse(boot.local2globaleid[m], g)

\* the add_edge loop without the eidloaded test
RECURSIVE AddEdgeLoopNoTest(_, _, _, _)
AddEdgeLoopNoTest(m, as, n, j) ==
  IF n = 0 THEN <<>>
  ELSE IF j = 0
       THEN AddEdgeLoopNoTest(m, as, n - 1,
                              IF n = 1 THEN 0 ELSE Len(globaleids(boot.in, as[n - 1])))
       ELSE LET a == as[n]
                srcdest == edge_src_dest(boot.in, a)[j]
            IN Append(AddEdgeLoopNoTest(m, as, n, j - 1),
                      <<global2localeid(m, globaleids(boot.in, a)[j]),
                        global2localvid(m, At(globalvids(boot.in, a), srcdest[1])),
                        global2localvid(m, At(globalvids(boot.in, a), srcdest[2]))>>)

\* the calls localstore.add_edge(localeid, sourcevid, destvid) made up to edge
\* j of atom as[n], in order; eidloaded[localeid] is true when a call with
\* that localeid was made. (Every atom of the model lists global edge IDs, so
\* localeid = global2localeid[globaleids()[j]].)
RECURSIVE AddEdgeLoop(_, _, _, _)
AddEdgeLoop(m, as, n, j) ==
  IF n = 0 THEN <<>>
  ELSE IF j = 0
       THEN AddEdgeLoop(m, as, n - 1,
                        IF n = 1 THEN 0 ELSE Len(globaleids(boot.in, as[n - 1])))
       ELSE LET calls == AddEdgeLoop(m, as, n, j - 1)
                a == as[n]
                localeid == global2localeid(m, globaleids(boot.in, a)[j])
                srcdest == edge_src_dest(boot.in, a)[j]
            IN IF \E c \in 1 .. Len(calls) : calls[c][1] = localeid THEN calls
               ELSE Append(calls,
                      <<localeid,
                        global2localvid(m, At(globalvids(boot.in, a), srcdest[1])),
                        global2localvid(m, At(globalvids(boot.in, a), srcdest[2]))>>)

\* The edges atom a adds to the local store: (global eid, local source,
\* local target), converted from the atom's indices through the global IDs.
AtomAdds(m, a) ==
  {<<globaleids(boot.in, a)[j],
     global2localvid(m, At(globalvids(boot.in, a), edge_src_dest(boot.in, a)[j][1])),
     global2localvid(m, At(globalvids(boot.in, a), edge_src_dest(boot.in, a)[j][2]))>> :
     j \in 1 .. Len(globaleids(boot.in, a))}

\* localvid2owner after the vertex loops of atoms as[1..n]
RECURSIVE OwnersAfter(_, _, _)
OwnersAfter(m, as, n) ==
  IF n = 0 THEN boot.localvid2owner[m]
  ELSE LET prev == OwnersAfter(m, as, n - 1)
           a == as[n]
       IN [i \in 1 .. Len(prev) |->
             IF \E j \in 1 .. Len(globalvids(boot.in, a)) :
                  global2localvid(m, globalvids(boot.in, a)[j]) = i - 1
             THEN boot.in.a2m[boot.in.atomOf[At(boot.local2globalvid[m], i - 1)]]
             ELSE prev[i]]

\* Loading structure: per atom, add its edges (each once) and set
\* localvid2owner of its vertices from atom2machine[atom()[j]], publishing
\* the vertices this machine owns.
LoadStructure(m) ==
  /\ boot # NotBooted
  /\ boot.pc[m] = "structure"
  /\ LET as == atoms_in_curpart(boot.in, m)
         owners == OwnersAfter(m, as, Len(as))
     IN boot' = [boot EXCEPT
          !.pc[m] = "eids",
          !.added[m] = UNION {AtomAdds(m, as[i]) : i \in 1 .. Len(as)},
          !.add_edge[m] = AddEdgeLoop(m, as, Len(as),
                                      Len(globaleids(boot.in, as[Len(as)]))),
          !.localvid2owner[m] = owners,
          !.globalvid2owner =
             [v \in BootVerts |->
                IF /\ \E i \in 1 .. Len(owners) :
                        boot.local2globalvid[m][i] = v /\ owners[i] = m
                THEN @[v] \cup {m} ELSE @[v]]]
  /\ UNCHANGED notBoot

\* The edges machine m publishes in the pass "Set up global eid table":
\* targetlocalvid is edge_src_dest()[j].second, the ATOM's index of the
\* target, and it indexes localvid2owner, which is by FRAGMENT index.
PublishedEidsAtomIndex(m) ==
  {e \in BootEids :
     \E i \in 1 .. Len(atoms_in_curpart(boot.in, m)) :
       LET a == atoms_in_curpart(boot.in, m)[i]
       IN \E j \in 1 .. Len(globaleids(boot.in, a)) :
            /\ globaleids(boot.in, a)[j] = e
            /\ At(boot.localvid2owner[m], edge_src_dest(boot.in, a)[j][2]) = m}

SetEdgeOwners(m) ==
  /\ boot # NotBooted
  /\ boot.pc[m] = "eids"
  /\ boot' = [boot EXCEPT
       !.pc[m] = "data",
       !.globaleid2owner =
          [e \in BootEids |->
             IF ~boot.canonical_numbering[m] /\ e \in PublishedEidsAtomIndex(m)
             THEN @[e] \cup {m} ELSE @[e]]]
  /\ UNCHANGED notBoot

\* Loading data, finalize, flush, comm_barrier
FinishBoot(m) ==
  /\ boot # NotBooted
  /\ boot.pc[m] = "data"
  /\ boot' = [boot EXCEPT !.pc[m] = "done"]
  /\ UNCHANGED notBoot

NextBoot ==
  \E m \in Machines :
    \/ LoadIdMaps(m)
    \/ LoadStructure(m)
    \/ SetEdgeOwners(m)
    \/ FinishBoot(m)

\* the machine owning global vertex v
BootOwner(v) == boot.in.a2m[boot.in.atomOf[v]]

Booted == boot # NotBooted /\ \A m \in Machines : boot.pc[m] = "done"

-----------------------------------------------------------------------------
\* Local store structure: graph_local_store add_edge, finalize, find,
\* compute_coloring, valid_coloring
\* Vertex and edge ids are 0-based; a vector is a sequence read with At.
NumStoreVerts == 3
MaxStoreEdges == 4

StoreVerts == 0 .. (NumStoreVerts - 1)

\* create_store(NumStoreVerts, MaxStoreEdges, ...): no edge added yet
EmptyStore ==
  [edges |-> <<>>,
   in_edges |-> [v \in StoreVerts |-> <<>>],
   out_edges |-> [v \in StoreVerts |-> <<>>],
   finalized |-> TRUE,
   vcolors |-> [v \in StoreVerts |-> 0]]

\* The last call on the store and what it returned: find returns a
\* std::pair (first, second), the other calls a number or a boolean, held
\* in second or first; aborted records a failed assertion.
Returned(first, second) == [aborted |-> FALSE, first |-> first, second |-> second]

LsCall(op, source, target, returned) ==
  [op |-> op, source |-> source, target |-> target, ret |-> returned]

LsRes(op, returned) == LsCall(op, 0, 0, returned)

NoLsRes == LsRes("none", Returned(FALSE, 0))

LsIdle == ls = EmptyStore /\ lsres = NoLsRes

InitStore == LsIdle

\* edge::operator< : lexicographic on (source, target)
EdgeLess(a, b) == a[1] < b[1] \/ (a[1] = b[1] /\ a[2] < b[2])

edge_id_less(a, b) == EdgeLess(At(ls.edges, a), At(ls.edges, b))

\* add_edge(edge_id, source, target) with the next unused edge id; the
\* range and self-edge assertions are the guard.  The structure is built
\* before it is used, as construct_local_fragment does.
AddEdge(source, target) ==
  /\ Len(ls.edges) < MaxStoreEdges
  /\ lsres.op \in {"none", "add_edge"}
  /\ source # target
  /\ LET edge_id == Len(ls.edges)
     IN ls' = [ls EXCEPT
          !.edges = Append(@, <<source, target>>),
          !.in_edges[target] = Append(@, edge_id),
          !.out_edges[source] = Append(@, edge_id),
          !.finalized = FALSE]
  /\ lsres' = LsRes("add_edge", Returned(FALSE, 0))
  /\ UNCHANGED notLs

RECURSIVE Perms(_)
Perms(S) ==
  IF S = {} THEN {<<>>}
  ELSE UNION {{<<x>> \o p : p \in Perms(S \ {x})} : x \in S}

\* std::sort(begin, end, less_functor) of the edge ids S: the arrangements
\* in which no element is less than one before it (the order of equal keys
\* is unspecified)
RECURSIVE Sorted(_)
Sorted(S) ==
  IF S = {} THEN {<<>>}
  ELSE UNION {{<<x>> \o p : p \in Sorted(S \ {x})} :
              x \in {y \in S : \A z \in S : ~edge_id_less(z, y)}}

SortedBy(vec) == Sorted({vec[i] : i \in 1 .. Len(vec)})

\* the ways of sorting the lists of vertices 0 .. v
RECURSIVE SortedLists(_, _)
SortedLists(lists, v) ==
  IF v < 0 THEN {lists}
  ELSE UNION {{[l EXCEPT ![v] = p] : p \in SortedBy(lists[v])} :
              l \in SortedLists(lists, v - 1)}

Finalize ==
  /\ IF ls.finalized THEN ls' = ls
     ELSE \E ie \in SortedLists(ls.in_edges, NumStoreVerts - 1),
             oe \in SortedLists(ls.out_edges, NumStoreVerts - 1) :
            ls' = [ls EXCEPT !.in_edges = ie, !.out_edges = oe,
                             !.finalized = TRUE]
  /\ lsres' = LsRes("finalize", Returned(FALSE, 0))
  /\ UNCHANGED notLs

\* what a search returns: a position, size_t(-1), or the failure of
\* assert(mid > 0)
Position(i) == [kind |-> "position", at |-> i]
NoPosition == [kind |-> "none", at |-> -1]
AssertFailed == [kind |-> "assert", at |-> -1]

\* binary_search(vec, source, target) on positions first .. last
RECURSIVE binary_search(_, _, _, _, _)
binary_search(vec, source, target, first, last) ==
  IF first > last THEN NoPosition
  ELSE LET mid == (first + last) \div 2
           midedge == At(ls.edges, At(vec, mid))
       IN IF midedge = <<source, target>> THEN Position(mid)
          ELSE IF first = last THEN NoPosition
          ELSE IF EdgeLess(<<source, target>>, midedge)
               THEN IF mid > 0
                    THEN binary_search(vec, source, target, first, mid - 1)
                    ELSE AssertFailed
               ELSE binary_search(vec, source, target, mid + 1, last)

\* the first position of vec holding an edge (source, target)
linear_search(vec, source, target) ==
  IF \E i \in 1 .. Len(vec) : At(ls.edges, vec[i]) = <<source, target>>
  THEN Position((CHOOSE i \in 1 .. Len(vec) :
          /\ At(ls.edges, vec[i]) = <<source, target>>
          /\ \A k \in 1 .. (i - 1) : At(ls.edges, vec[k]) # <<source, target>>) - 1)
  ELSE NoPosition

Found(e) == Returned(TRUE, e)
NotFound == Returned(FALSE, -1)
Aborted == [aborted |-> TRUE, first |-> FALSE, second |-> -1]

\* What a find that ran into the failed assertion can produce: the abort,
\* or, where assertions are compiled out, whatever the search makes of
\* last = size_t(-1) and the reads past the vector.
AssertOutcomes ==
  {Aborted, NotFound} \cup {Found(e) : e \in 0 .. (MaxStoreEdges - 1)}

\* the outcomes of find(source, target)
find(source, target) ==
  IF Len(ls.in_edges[target]) = 0 \/ Len(ls.out_edges[source]) = 0
  THEN {NotFound}
  ELSE LET vec == IF Len(ls.in_edges[target]) < Len(ls.out_edges[source])
                  THEN ls.in_edges[target] ELSE ls.out_edges[source]
           index == IF ls.finalized
                    THEN binary_search(vec, source, target, 0, Len(vec) - 1)
                    ELSE linear_search(vec, source, target)
       IN IF index = AssertFailed THEN AssertOutcomes
          ELSE IF index = NoPosition THEN {NotFound}
          ELSE {Found(At(vec, index.at))}

Find(source, target) ==
  /\ \E r \in find(source, target) :
       lsres' = LsCall("find", source, target, r)
  /\ UNCHANGED ls
  /\ UNCHANGED notLs

\* -num_in_neighbors(v) as a 32-bit unsigned vertex_id_type, held as its
\* two 16-bit halves
NegDegree(v) ==
  IF Len(ls.in_edges[v]) = 0 THEN <<0, 0>>
  ELSE <<65535, 65536 - Len(ls.in_edges[v])>>

\* std::pair operator< on (-num_in_neighbors(v), v)
PermLess(v, w) ==
  \/ EdgeLess(NegDegree(v), NegDegree(w))
  \/ NegDegree(v) = NegDegree(w) /\ v < w

\* the sorted permutation
permutation ==
  CHOOSE p \in Perms(StoreVerts) :
    \A i \in 1 .. Len(p), j \in 1 .. Len(p) : i < j => PermLess(p[i], p[j])

\* "Find the lowest free color" over the ascending set neighbor_colors,
\* starting from vertex_color
RECURSIVE LowestFree(_, _)
LowestFree(vertex_color, neighbor_colors) ==
  IF neighbor_colors = {} THEN vertex_color
  ELSE LET nc == CHOOSE c \in neighbor_colors : \A d \in neighbor_colors : c <= d
       IN IF vertex_color # nc THEN vertex_color
          ELSE LowestFree(vertex_color + 1, neighbor_colors \ {nc})

\* colors after recoloring the first n vertices of the permutation
RECURSIVE Recolor(_)
Recolor(n) ==
  IF n = 0 THEN [v \in StoreVerts |-> 0]
  ELSE LET colors == Recolor(n - 1)
           vid == permutation[n]
           neighbor_colors ==
             {colors[At(ls.edges, ls.in_edges[vid][i])[1]] :
                i \in 1 .. Len(ls.in_edges[vid])}
       IN [colors EXCEPT ![vid] = LowestFree(colors[vid], neighbor_colors)]

ComputeColoring ==
  /\ LET colors == Recolor(NumStoreVerts)
         max_color == CHOOSE c \in {colors[v] : v \in StoreVerts} :
                        \A v \in StoreVerts : colors[v] <= c
     IN /\ ls' = [ls EXCEPT !.vcolors = colors]
        /\ lsres' = LsRes("compute_coloring", Returned(FALSE, max_color + 1))
  /\ UNCHANGED notLs

valid_coloring ==
  \A vid \in StoreVerts :
    \A i \in 1 .. Len(ls.in_edges[vid]) :
      ls.vcolors[vid] # ls.vcolors[At(ls.edges, ls.in_edges[vid][i])[1]]

ValidColoring ==
  /\ lsres' = IF valid_coloring
               THEN LsRes("valid_coloring", Returned(TRUE, 0))
               ELSE LsRes("valid_coloring", Returned(FALSE, 0))
  /\ UNCHANGED ls
  /\ UNCHANGED notLs

\* add_edge with the caller's arguments, in range or not, on the store made
\* by create_store(NumStoreVerts, MaxStoreEdges, ...)
MaxAdds == 2

EdgeIdArgs == 0 .. MaxStoreEdges
VertexArgs == 0 .. NumStoreVerts

\* edge(): _source(-1), _target(-1)
DefaultEdge == <<-1, -1>>

\* edges[edge_id] = e; ls.edges holds the vector up to the last entry written
PutEdge(edges, edge_id, e) ==
  [i \in 1 .. (IF edge_id + 1 > Len(edges) THEN edge_id + 1 ELSE Len(edges)) |->
     IF i = edge_id + 1 THEN e
     ELSE IF i <= Len(edges) THEN edges[i] ELSE DefaultEdge]

\* the number of add_edge calls that went through
RECURSIVE NumAdded(_)
NumAdded(v) ==
  IF v < 0 THEN 0 ELSE Len(ls.in_edges[v]) + NumAdded(v - 1)

AddEdgeCall(edge_id, source, target, abort) ==
  [op |-> "add_edge_id", source |-> source, target |-> target,
   ret |-> [aborted |-> abort, first |-> FALSE, second |-> edge_id]]

\* add_edge without the self-edge assertion
AddEdgeAtSelfLoops(edge_id, source, target) ==
  /\ NumAdded(NumStoreVerts - 1) < MaxAdds
  /\ ~lsres.ret.aborted
  /\ IF source >= NumStoreVerts \/ target >= NumStoreVerts
        \/ edge_id >= MaxStoreEdges
     THEN /\ lsres' = AddEdgeCall(edge_id, source, target, TRUE)
          /\ UNCHANGED ls
     ELSE /\ lsres' = AddEdgeCall(edge_id, source, target, FALSE)
          /\ ls' = [ls EXCEPT
               !.edges = PutEdge(@, edge_id, <<source, target>>),
               !.in_edges = [v \in StoreVerts |->
                  IF v = target THEN Append(ls.in_edges[v], edge_id)
                  ELSE ls.in_edges[v]],
               !.out_edges = [v \in StoreVerts |->
                  IF v = source THEN Append(ls.out_edges[v], edge_id)
                  ELSE ls.out_edges[v]],
               !.finalized = FALSE]
  /\ UNCHANGED notLs

\* add_edge(edge_id, source, target): the three assertions, then the
\* writes; nothing is called after an assertion has aborted the process
AddEdgeAt(edge_id, source, target) ==
  /\ NumAdded(NumStoreVerts - 1) < MaxAdds
  /\ ~lsres.ret.aborted
  /\ IF source >= NumStoreVerts \/ target >= NumStoreVerts
        \/ edge_id >= MaxStoreEdges \/ source = target
     THEN /\ lsres' = AddEdgeCall(edge_id, source, target, TRUE)
          /\ UNCHANGED ls
     ELSE /\ lsres' = AddEdgeCall(edge_id, source, target, FALSE)
          /\ ls' = [ls EXCEPT
               !.edges = PutEdge(@, edge_id, <<source, target>>),
               !.in_edges[target] = Append(@, edge_id),
               !.out_edges[source] = Append(@, edge_id),
               !.finalized = FALSE]
  /\ UNCHANGED notLs

NextAddEdge ==
  \E edge_id \in EdgeIdArgs, source \in VertexArgs, target \in VertexArgs :
    AddEdgeAt(edge_id, source, target)

\* building, sorting and searching the structure
NextStore ==
  \/ \E source \in StoreVerts, target \in StoreVerts : AddEdge(source, target)
  \/ Finalize
  \/ \E source \in StoreVerts :
       \E target \in StoreVerts \ {source} : Find(source, target)

\* building and coloring the structure
NextColoring ==
  \/ \E source \in StoreVerts, target \in StoreVerts : AddEdge(source, target)
  \/ ComputeColoring
  \/ ValidColoring

-----------------------------------------------------------------------------
\* graph_local_store save / load
\* The store's records lie in one array of vdata_store (edata_store); memory
\* is counted in words: a record is its data followed by the word holding
\* the bit-fields modified, snapshot_made and version.
DataWords == 1
RecordWords == 2

RecordValues ==
  [data : Payloads, version : 0 .. 1, modified : BOOLEAN, snapshot_made : BOOLEAN]

FreshRecord == [data |-> 0, version |-> 0, modified |-> FALSE, snapshot_made |-> FALSE]

\* the words a record occupies
BitFields(r) == <<r.modified, r.snapshot_made, r.version>>

RecordToWords(r) == <<r.data, BitFields(r)>>

\* the array of records as words
RECURSIVE Memory(_)
Memory(records) ==
  IF records = <<>> THEN <<>>
  ELSE RecordToWords(Head(records)) \o Memory(Tail(records))

\* the records that lie in the words mem
RECURSIVE RecordsIn(_)
RecordsIn(mem) ==
  IF Len(mem) < RecordWords THEN <<>>
  ELSE <<[data |-> mem[1], modified |-> mem[2][1],
          snapshot_made |-> mem[2][2], version |-> mem[2][3]]>>
       \o RecordsIn(SubSeq(mem, RecordWords + 1, Len(mem)))

\* serialize(arc, vertices, sizeof(VertexData) * nvertices): the first
\* DataWords * n words of the array
Blob(records) == SubSeq(Memory(records), 1, DataWords * Len(records))

\* what malloc'ed words that load does not write can hold: word k of a
\* record array is a data word or a bit-field word
GarbageWord(k) ==
  IF k % RecordWords = 1 THEN Payloads
  ELSE {BitFields(r) : r \in RecordValues}

\* the arrays load can leave: blob, then unwritten words up to n records
RECURSIVE Filled(_, _)
Filled(mem, n) ==
  IF Len(mem) >= RecordWords * n THEN {mem}
  ELSE UNION {Filled(Append(mem, w), n) : w \in GarbageWord(Len(mem) + 1)}

\* The stores saved: one or two vertices on a path, colors and records of
\* vertex 0 and edge 0 drawn freely.
ArStores ==
  {[nvertices |-> n, nedges |-> n - 1,
    edges |-> [e \in 1 .. (n - 1) |-> <<e - 1, e>>],
    in_edges |-> [v \in 0 .. (n - 1) |-> IF v = 0 THEN <<>> ELSE <<v - 1>>],
    out_edges |-> [v \in 0 .. (n - 1) |-> IF v = n - 1 THEN <<>> ELSE <<v>>],
    vcolors |-> [v \in 0 .. (n - 1) |-> IF v = 0 THEN c ELSE 0],
    finalized |-> f,
    vertices |-> [v \in 1 .. n |-> IF v = 1 THEN rv ELSE FreshRecord],
    edgedata |-> [e \in 1 .. (n - 1) |-> re]] :
     n \in 1 .. 2, c \in 0 .. 1, f \in BOOLEAN,
     rv \in RecordValues, re \in RecordValues}

NoArchive == <<>>

ArIdle == ar = <<>>

InitArchive ==
  ar \in {[pc |-> "built", S |-> S, archive |-> NoArchive, L |-> S] : S \in ArStores}

\* save(arc): the structure, then the two blobs
Save ==
  /\ ar # <<>>
  /\ ar.pc = "built"
  /\ ar' = [ar EXCEPT
       !.pc = "saved",
       !.archive = [nvertices |-> ar.S.nvertices, nedges |-> ar.S.nedges,
                    edges |-> ar.S.edges, in_edges |-> ar.S.in_edges,
                    out_edges |-> ar.S.out_edges, vcolors |-> ar.S.vcolors,
                    finalized |-> ar.S.finalized,
                    vblob |-> Blob(ar.S.vertices),
                    eblob |-> Blob(ar.S.edgedata)]]
  /\ UNCHANGED notAr

\* load(arc): clear(), the structure, allocate_graph_data(), then the two
\* blobs into the start of the new arrays
Load ==
  /\ ar # <<>>
  /\ ar.pc = "saved"
  /\ \E vmem \in Filled(ar.archive.vblob, ar.archive.nvertices),
        emem \in Filled(ar.archive.eblob, ar.archive.nedges) :
       ar' = [ar EXCEPT
         !.pc = "loaded",
         !.L = [nvertices |-> ar.archive.nvertices, nedges |-> ar.archive.nedges,
                edges |-> ar.archive.edges, in_edges |-> ar.archive.in_edges,
                out_edges |-> ar.archive.out_edges, vcolors |-> ar.archive.vcolors,
                finalized |-> ar.archive.finalized,
                vertices |-> RecordsIn(vmem),
                edgedata |-> RecordsIn(emem)]]
  /\ UNCHANGED notAr

NextArchive == Save \/ Load

-----------------------------------------------------------------------------
\* graph_local_store conditional updates
\* One call of conditional_update_vertex / conditional_update_edge on a
\* record: prim.owner is the record, prim.st.data and prim.version the
\* arguments, prim.after the record left.
UpdateKinds == {"conditional_update_vertex", "conditional_update_edge"}

InitUpdate ==
  \E k \in UpdateKinds, r \in Records, n \in Versions, d \in Payloads :
    prim = [phase |-> "call", kind |-> k, owner |-> r, version |-> n,
            st |-> [hasdata |-> TRUE, data |-> d, version |-> 0],
            res |-> NoData, fatal |-> FALSE, after |-> r]

CallConditionalUpdateVertex ==
  /\ prim.phase = "call" /\ prim.kind = "conditional_update_vertex"
  /\ prim' = [prim EXCEPT
       !.phase = "done",
       !.after = conditional_update_vertex(prim.owner, prim.st.data, prim.version)]
  /\ UNCHANGED notPrim

CallConditionalUpdateEdge ==
  /\ prim.phase = "call" /\ prim.kind = "conditional_update_edge"
  /\ prim' = [prim EXCEPT
       !.phase = "done",
       !.after = conditional_update_edge(prim.owner, prim.st.data, prim.version)]
  /\ UNCHANGED notPrim

NextUpdate == CallConditionalUpdateVertex \/ CallConditionalUpdateEdge

-----------------------------------------------------------------------------
\* graph_local_store locks: the threads of one machine (engine threads, RPC
\* dispatcher threads) writing the records of vertex 0, of vertex 1 and of the
\* edge 0 -> 1 of its local store
NumThreads == 2

\* calls made by all threads together
MaxLockCalls == 3

Threads == 1 .. NumThreads

LockVertices == 0 .. 1

Entities == {"v0", "v1", "e"}

\* locks[v] for a vertex, locks[target(e)] for the edge
LockOf(x) == IF x = "v0" THEN 0 ELSE 1

\* increment_and_update_vertex / _edge, conditional_update_vertex / _edge,
\* get_vertex / get_edge_if_version_less_than with data supplied,
\* update_vertex / update_edge_data_and_version with data supplied
LockOps ==
  {"increment_and_update", "conditional_update", "get_if_version_less_than",
   "update_data_and_version"}

\* the store functions that take locks[...]
Locking(op) == op \in {"increment_and_update", "conditional_update"}

IdleThread == [pc |-> "idle", op |-> "none", x |-> "v0", data |-> 0, version |-> 0]

LkIdle == lk = <<>>

InitLock ==
  lk = [rec |-> [x \in Entities |-> [data |-> 0, version |-> 0]],
        locks |-> [v \in LockVertices |-> 0],
        thr |-> [t \in Threads |-> IdleThread],
        calls |-> 0]

\* a thread enters one of the functions
LkCall(t) ==
  /\ lk.thr[t].pc = "idle" /\ lk.calls < MaxLockCalls
  /\ \E op \in LockOps, x \in Entities, d \in Payloads, n \in 1 .. MaxVersion :
       /\ op = "increment_and_update" => n = 1
       /\ lk' = [lk EXCEPT !.calls = @ + 1,
                           !.thr[t] = [pc |-> IF Locking(op) THEN "lock"
                                              ELSE IF op = "get_if_version_less_than"
                                                   THEN "read" ELSE "data",
                                       op |-> op, x |-> x, data |-> d,
                                       version |-> n]]
  /\ UNCHANGED notLk

\* locks[v].lock() / locks[target(e)].lock()
LkAcquire(t) ==
  /\ lk.thr[t].pc = "lock" /\ lk.locks[LockOf(lk.thr[t].x)] = 0
  /\ lk' = [lk EXCEPT !.locks[LockOf(lk.thr[t].x)] = t,
                      !.thr[t].pc = IF lk.thr[t].op = "increment_and_update"
                                    THEN "data" ELSE "test"]
  /\ UNCHANGED notLk

\* conditional_update_*: if (vertices[v].version <= version)
LkTest(t) ==
  /\ lk.thr[t].pc = "test"
  /\ lk' = [lk EXCEPT !.thr[t].pc = IF lk.rec[lk.thr[t].x].version <= lk.thr[t].version
                                    THEN "data" ELSE "unlock"]
  /\ UNCHANGED notLk

\* get_*_if_version_less_than: local_vertex_version = localstore.vertex_version(localvid)
\* and the comparisons on it; the first branch only reads the record
LkRead(t) ==
  /\ lk.thr[t].pc = "read"
  /\ lk' = [lk EXCEPT !.thr[t] = IF lk.rec[lk.thr[t].x].version < lk.thr[t].version
                                 THEN [@ EXCEPT !.pc = "data"] ELSE IdleThread]
  /\ UNCHANGED notLk

\* vertices[v].data = data; localstore.vertex_data(localvid) = vdata.data.first
LkWriteData(t) ==
  /\ lk.thr[t].pc = "data"
  /\ lk' = [lk EXCEPT !.rec[lk.thr[t].x].data = lk.thr[t].data,
                      !.thr[t].pc = "version"]
  /\ UNCHANGED notLk

\* vertices[v].version++; vertices[v].version = version;
\* localstore.set_vertex_version(localvid, vertexversion)
LkWriteVersion(t) ==
  /\ lk.thr[t].pc = "version"
  /\ lk' = [lk EXCEPT !.rec[lk.thr[t].x].version =
                          IF lk.thr[t].op = "increment_and_update"
                          THEN @ + 1 ELSE lk.thr[t].version,
                      !.thr[t] = IF Locking(lk.thr[t].op)
                                 THEN [@ EXCEPT !.pc = "unlock"] ELSE IdleThread]
  /\ UNCHANGED notLk

\* locks[v].unlock() / locks[target(e)].unlock()
LkRelease(t) ==
  /\ lk.thr[t].pc = "unlock"
  /\ lk' = [lk EXCEPT !.locks[LockOf(lk.thr[t].x)] = 0, !.thr[t] = IdleThread]
  /\ UNCHANGED notLk

NextLock ==
  \E t \in Threads :
    \/ LkCall(t) \/ LkAcquire(t) \/ LkTest(t) \/ LkRead(t)
    \/ LkWriteData(t) \/ LkWriteVersion(t) \/ LkRelease(t)

-----------------------------------------------------------------------------
\* queued_fifo_scheduler at the level of its locks: worker thread w calls
\* get_next(w, ...), every thread calls schedule and
\* schedule_from_execution_thread, the main thread calls start(); one step per
\* lock request and per lock section body
MainThread == NumCpus

SchedThreads == Cpus \cup {MainThread}

NoThread == -1

IdleCaller == [pc |-> "idle", cpuid |-> 0, vid |-> 0]

SlIdle == sl = <<>>

InitSl ==
  sl = [master_lock |-> NoThread,
        in_queue_locks |-> [c \in Cpus |-> NoThread],
        thr |-> [t \in SchedThreads |-> IdleCaller],
        ids |-> <<>>,      \* history: the number given to each sub-queue in the master
        appended |-> 0,    \* history: sub-queues appended to the master so far
        taken |-> <<>>,    \* history: (number, worker) of each sub-queue removed
        jobs |-> [c \in Cpus |-> 0],  \* history: term.new_job(c) calls
        \* history: the priorities passed to schedule(v, msg), summed
        scheduled |-> [v \in Vertices |-> 0],
        \* history: the priorities returned with NEW_TASK for v, summed
        delivered |-> [v \in Vertices |-> 0]]

\* a schedule that queues the vertex whatever messages.add returned
EnteredAlways(t, isnew, cpuid, v) ==
  [sl EXCEPT !.thr[t] = [pc |-> "lock_in", cpuid |-> cpuid, vid |-> v]]

\* the thread goes on to in_queue_locks[cpuid].lock() when the test of
\* messages.add / messages.has_task succeeded, and returns otherwise
Entered(t, isnew, cpuid, v) ==
  IF isnew
  THEN [sl EXCEPT !.thr[t] = [pc |-> "lock_in", cpuid |-> cpuid, vid |-> v]]
  ELSE sl

\* schedule(vid, msg) with its random cpuid and
\* schedule_from_execution_thread(cpuid, vid, msg): messages.add
SlSchedule(t, v, p) ==
  /\ sl.thr[t].pc = "idle" /\ ncalls < MaxCalls
  /\ ncalls' = ncalls + 1
  /\ LET r == vm_add(messages, v, p) IN
       /\ messages' = r.map
       /\ \E cpuid \in Cpus :
            sl' = [Entered(t, r.isnew, cpuid, v) EXCEPT !.scheduled[v] = @ + p]
  /\ UNCHANGED <<master_queue, in_queues, out_queues, started, schedHist, notSl>>

\* schedule(vid) and schedule_from_execution_thread(cpuid, vid): has_task
SlScheduleVid(t, v) ==
  /\ sl.thr[t].pc = "idle" /\ ncalls < MaxCalls
  /\ ncalls' = ncalls + 1
  /\ \E cpuid \in Cpus :
       sl' = Entered(t, vm_has_task(messages, v), cpuid, v)
  /\ UNCHANGED <<messages, master_queue, in_queues, out_queues, started,
                 schedHist, notSl>>

\* in_queue_locks[cpuid].lock()
SlLockIn(t) ==
  /\ sl.thr[t].pc = "lock_in"
  /\ sl.in_queue_locks[sl.thr[t].cpuid] = NoThread
  /\ sl' = [sl EXCEPT !.in_queue_locks[sl.thr[t].cpuid] = t, !.thr[t].pc = "push"]
  /\ UNCHANGED <<messages, master_queue, in_queues, out_queues, started, ncalls,
                 schedHist, notSl>>

\* a schedule that goes on to flush when the queue holds sub_queue_size entries
SlPushAtThreshold(t) ==
  /\ sl.thr[t].pc = "push"
  /\ LET cpuid == sl.thr[t].cpuid
         queue == Append(in_queues[cpuid], sl.thr[t].vid)
     IN /\ in_queues' = [in_queues EXCEPT ![cpuid] = queue]
        /\ sl' = [sl EXCEPT !.thr[t].pc = IF Len(queue) >= sub_queue_size
                                          THEN "lock_master" ELSE "unlock_in"]
  /\ UNCHANGED <<messages, master_queue, out_queues, started, ncalls, schedHist,
                 notSl>>

\* a schedule that pushes vid at the front of the in_queue
SlPushFront(t) ==
  /\ sl.thr[t].pc = "push"
  /\ LET cpuid == sl.thr[t].cpuid
         queue == <<sl.thr[t].vid>> \o in_queues[cpuid]
     IN /\ in_queues' = [in_queues EXCEPT ![cpuid] = queue]
        /\ sl' = [sl EXCEPT !.thr[t].pc = IF Len(queue) > sub_queue_size
                                          THEN "lock_master" ELSE "unlock_in"]
  /\ UNCHANGED <<messages, master_queue, out_queues, started, ncalls, schedHist,
                 notSl>>

\* queue.push_back(vid); if (queue.size() > sub_queue_size)
SlPush(t) ==
  /\ sl.thr[t].pc = "push"
  /\ LET cpuid == sl.thr[t].cpuid
         queue == Append(in_queues[cpuid], sl.thr[t].vid)
     IN /\ in_queues' = [in_queues EXCEPT ![cpuid] = queue]
        /\ sl' = [sl EXCEPT !.thr[t].pc = IF Len(queue) > sub_queue_size
                                          THEN "lock_master" ELSE "unlock_in"]
  /\ UNCHANGED <<messages, master_queue, out_queues, started, ncalls, schedHist,
                 notSl>>

\* master_lock.lock() inside the in_queue section
SlLockMaster(t) ==
  /\ sl.thr[t].pc = "lock_master"
  /\ sl.master_lock = NoThread
  /\ sl' = [sl EXCEPT !.master_lock = t, !.thr[t].pc = "swap"]
  /\ UNCHANGED <<messages, master_queue, in_queues, out_queues, started, ncalls,
                 schedHist, notSl>>

\* master_queue.push_back(emptyq); master_queue.back().swap(queue);
\* master_lock.unlock()
SlSwap(t) ==
  /\ sl.thr[t].pc = "swap"
  /\ LET cpuid == sl.thr[t].cpuid IN
       /\ master_queue' = Append(master_queue, in_queues[cpuid])
       /\ in_queues' = [in_queues EXCEPT ![cpuid] = <<>>]
  /\ sl' = [sl EXCEPT !.master_lock = NoThread, !.thr[t].pc = "unlock_in",
                      !.ids = Append(@, sl.appended + 1),
                      !.appended = @ + 1]
  /\ UNCHANGED <<messages, out_queues, started, ncalls, schedHist, notSl>>

\* in_queue_locks[cpuid].unlock(); term.new_job(cpuid)
SlUnlockIn(t) ==
  /\ sl.thr[t].pc = "unlock_in"
  /\ sl' = [sl EXCEPT !.in_queue_locks[sl.thr[t].cpuid] = NoThread,
                      !.jobs[sl.thr[t].cpuid] = @ + 1,
                      !.thr[t] = IdleCaller]
  /\ UNCHANGED <<messages, master_queue, in_queues, out_queues, started, ncalls,
                 schedHist, notSl>>

\* the top of get_next's loop: if (out_queues[cpuid].empty())
LoopTop(w) == IF out_queues[w] = <<>> THEN "gn_lock_master" ELSE "gn_lock_in"

\* get_next(cpuid, ...) is entered by worker cpuid
SlGetNext(w) ==
  /\ w \in Cpus
  /\ sl.thr[w].pc = "idle"
  /\ sl' = [sl EXCEPT !.thr[w] = [pc |-> LoopTop(w), cpuid |-> w, vid |-> 0]]
  /\ UNCHANGED <<messages, master_queue, in_queues, out_queues, started, ncalls,
                 schedHist, notSl>>

\* master_lock.lock()
SlGnLockMaster(w) ==
  /\ sl.thr[w].pc = "gn_lock_master"
  /\ sl.master_lock = NoThread
  /\ sl' = [sl EXCEPT !.master_lock = w, !.thr[w].pc = "gn_master"]
  /\ UNCHANGED <<messages, master_queue, in_queues, out_queues, started, ncalls,
                 schedHist, notSl>>

\* a get_next that takes the sub-queue at the back of the master queue
GnTakeBack(w, lock) ==
  /\ IF master_queue # <<>>
     THEN /\ out_queues' = [out_queues EXCEPT ![w] = master_queue[Len(master_queue)]]
          /\ master_queue' = SubSeq(master_queue, 1, Len(master_queue) - 1)
          /\ sl' = [sl EXCEPT !.master_lock = lock, !.thr[w].pc = "gn_lock_in",
                              !.ids = SubSeq(@, 1, Len(@) - 1),
                              !.taken = Append(@, <<sl.ids[Len(sl.ids)], w>>)]
     ELSE /\ UNCHANGED <<out_queues, master_queue>>
          /\ sl' = [sl EXCEPT !.master_lock = lock, !.thr[w].pc = "gn_lock_in"]
  /\ UNCHANGED <<messages, in_queues, started, ncalls, schedHist, notSl>>

\* the effect of get_next's master section on the queues and the history
GnTake(w, lock) ==
  /\ IF master_queue # <<>>
     THEN /\ out_queues' = [out_queues EXCEPT ![w] = Head(master_queue)]
          /\ master_queue' = Tail(master_queue)
          /\ sl' = [sl EXCEPT !.master_lock = lock, !.thr[w].pc = "gn_lock_in",
                              !.ids = Tail(@),
                              !.taken = Append(@, <<Head(sl.ids), w>>)]
     ELSE /\ UNCHANGED <<out_queues, master_queue>>
          /\ sl' = [sl EXCEPT !.master_lock = lock, !.thr[w].pc = "gn_lock_in"]
  /\ UNCHANGED <<messages, in_queues, started, ncalls, schedHist, notSl>>

\* a get_next that keeps master_lock while it goes on to its in_queue
SlGnMasterHold(w) ==
  /\ sl.thr[w].pc = "gn_master"
  /\ GnTake(w, w)

\* if (!master_queue.empty()) { swap with front; pop_front }; master_lock.unlock()
SlGnMaster(w) ==
  /\ sl.thr[w].pc = "gn_master"
  /\ GnTake(w, NoThread)

\* in_queue_locks[cpuid].lock()
SlGnLockIn(w) ==
  /\ sl.thr[w].pc = "gn_lock_in"
  /\ sl.in_queue_locks[w] = NoThread
  /\ sl' = [sl EXCEPT !.in_queue_locks[w] = w, !.thr[w].pc = "gn_inq"]
  /\ UNCHANGED <<messages, master_queue, in_queues, out_queues, started, ncalls,
                 schedHist, notSl>>

\* if (out_queues[cpuid].empty() && !in_queues[cpuid].empty()) swap;
\* in_queue_locks[cpuid].unlock()
SlGnInq(w) ==
  /\ sl.thr[w].pc = "gn_inq"
  /\ IF out_queues[w] = <<>> /\ in_queues[w] # <<>>
     THEN /\ out_queues' = [out_queues EXCEPT ![w] = in_queues[w]]
          /\ in_queues' = [in_queues EXCEPT ![w] = <<>>]
     ELSE UNCHANGED <<out_queues, in_queues>>
  /\ sl' = [sl EXCEPT !.in_queue_locks[w] = NoThread, !.thr[w].pc = "gn_pop"]
  /\ UNCHANGED <<messages, master_queue, started, ncalls, schedHist, notSl>>

\* the pop of out_queues[cpuid] and messages.test_and_get: NEW_TASK or EMPTY
\* is returned, or the loop goes round
SlGnPop(w) ==
  /\ sl.thr[w].pc = "gn_pop"
  /\ IF out_queues[w] # <<>>
     THEN LET r == vm_test_and_get(messages, Head(out_queues[w])) IN
            /\ out_queues' = [out_queues EXCEPT ![w] = Tail(@)]
            /\ messages' = r.map
            /\ sl' = [sl EXCEPT !.thr[w] =
                        IF r.ok THEN IdleCaller
                        ELSE [@ EXCEPT !.pc = IF Tail(out_queues[w]) = <<>>
                                              THEN "gn_lock_master"
                                              ELSE "gn_lock_in"],
                                 !.delivered[Head(out_queues[w])] = @ + r.prio]
     ELSE /\ sl' = [sl EXCEPT !.thr[w] = IdleCaller]
          /\ UNCHANGED <<messages, out_queues>>
  /\ UNCHANGED <<master_queue, in_queues, started, ncalls, schedHist, notSl>>

\* start() is entered by the main thread: master_lock.lock()
SlStart(t) ==
  /\ t = MainThread
  /\ sl.thr[t].pc = "idle" /\ ~started
  /\ sl.master_lock = NoThread
  /\ sl' = [sl EXCEPT !.master_lock = t, !.thr[t].pc = "flush"]
  /\ UNCHANGED <<messages, master_queue, in_queues, out_queues, started, ncalls,
                 schedHist, notSl>>

\* the loop of start(), master_lock.unlock(), term.reset()
SlFlush(t) ==
  /\ sl.thr[t].pc = "flush"
  /\ started' = TRUE
  /\ master_queue' = Flush(master_queue, in_queues, 0)
  /\ in_queues' = [c \in Cpus |-> <<>>]
  /\ sl' = [sl EXCEPT !.master_lock = NoThread, !.thr[t] = IdleCaller,
                      !.ids = @ \o [i \in 1 .. NumCpus |-> sl.appended + i],
                      !.appended = @ + NumCpus]
  /\ UNCHANGED <<messages, out_queues, ncalls, schedHist, notSl>>

NextSl ==
  \/ \E t \in SchedThreads, v \in Vertices, p \in Prios : SlSchedule(t, v, p)
  \/ \E t \in SchedThreads, v \in Vertices : SlScheduleVid(t, v)
  \/ \E t \in SchedThreads : SlLockIn(t)
  \/ \E t \in SchedThreads : SlPush(t)
  \/ \E t \in SchedThreads : SlLockMaster(t)
  \/ \E t \in SchedThreads : SlSwap(t)
  \/ \E t \in SchedThreads : SlUnlockIn(t)
  \/ \E w \in SchedThreads : SlGetNext(w)
  \/ \E w \in SchedThreads : SlGnLockMaster(w)
  \/ \E w \in SchedThreads : SlGnMaster(w)
  \/ \E w \in SchedThreads : SlGnLockIn(w)
  \/ \E w \in SchedThreads : SlGnInq(w)
  \/ \E w \in SchedThreads : SlGnPop(w)
  \/ \E t \in SchedThreads : SlStart(t)
  \/ \E t \in SchedThreads : SlFlush(t)

-----------------------------------------------------------------------------
\* start() statement by statement, next to the schedule and get_next calls of
\* the other threads: its loop holds master_lock and none of in_queue_locks

\* master_queue.push_back(in_queues[i]): a copy of in_queues[i] goes to the
\* back of the master queue
SlFlushCopy(t) ==
  /\ sl.thr[t].pc = "flush"
  /\ sl.thr[t].cpuid < NumCpus
  /\ master_queue' = Append(master_queue, in_queues[sl.thr[t].cpuid])
  /\ sl' = [sl EXCEPT !.thr[t].pc = "flush_clear",
                      !.ids = Append(@, sl.appended + 1),
                      !.appended = @ + 1]
  /\ UNCHANGED <<messages, in_queues, out_queues, started, ncalls, schedHist,
                 notSl>>

\* in_queues[i].clear(); ++i
SlFlushClear(t) ==
  /\ sl.thr[t].pc = "flush_clear"
  /\ in_queues' = [in_queues EXCEPT ![sl.thr[t].cpuid] = <<>>]
  /\ sl' = [sl EXCEPT !.thr[t].pc = "flush", !.thr[t].cpuid = @ + 1]
  /\ UNCHANGED <<messages, master_queue, out_queues, started, ncalls, schedHist,
                 notSl>>

\* the loop is over: master_lock.unlock(); term.reset()
SlFlushEnd(t) ==
  /\ sl.thr[t].pc = "flush"
  /\ sl.thr[t].cpuid = NumCpus
  /\ started' = TRUE
  /\ sl' = [sl EXCEPT !.master_lock = NoThread, !.thr[t] = IdleCaller]
  /\ UNCHANGED <<messages, master_queue, in_queues, out_queues, ncalls,
                 schedHist, notSl>>

NextStartRace ==
  \/ \E t \in SchedThreads, v \in Vertices, p \in Prios : SlSchedule(t, v, p)
  \/ \E t \in SchedThreads, v \in Vertices : SlScheduleVid(t, v)
  \/ \E t \in SchedThreads : SlLockIn(t)
  \/ \E t \in SchedThreads : SlPush(t)
  \/ \E t \in SchedThreads : SlLockMaster(t)
  \/ \E t \in SchedThreads : SlSwap(t)
  \/ \E t \in SchedThreads : SlUnlockIn(t)
  \/ \E w \in SchedThreads : SlGetNext(w)
  \/ \E w \in SchedThreads : SlGnLockMaster(w)
  \/ \E w \in SchedThreads : SlGnMaster(w)
  \/ \E w \in SchedThreads : SlGnLockIn(w)
  \/ \E w \in SchedThreads : SlGnInq(w)
  \/ \E w \in SchedThreads : SlGnPop(w)
  \/ \E t \in SchedThreads : SlStart(t)
  \/ \E t \in SchedThreads : SlFlushCopy(t)
  \/ \E t \in SchedThreads : SlFlushClear(t)
  \/ \E t \in SchedThreads : SlFlushEnd(t)

-----------------------------------------------------------------------------
\* Batched synchronization: get_alot and get_alot2 on the owner, and the same
\* request served entry by entry with the single-entity primitives

\* entries of one kind in a request
MaxBatch == 2

BatchKinds == {"get_alot", "get_alot2"}

\* the owner's records: vertices 0 and 1, edge 0 (0 -> 1)
BatchStores ==
  [v : [1 .. 2 -> [data : {0}, version : {0, 1}, modified : {FALSE},
                   snapshot_made : {TRUE}]],
   e : [1 .. 1 -> [data : {0}, version : {0, 1}, modified : {FALSE},
                   snapshot_made : {TRUE}]]]

\* the conditional_store of an entry: no data, or the caller's payload
BatchIn == {NoData, [hasdata |-> TRUE, data |-> 1, version |-> 0]}

\* block_synchronize_request / block_synchronize_request2 with n vertex and k
\* edge entries (eid, or srcdest for the pair of edge 0)
Requests ==
  UNION {[vid : [1 .. n -> {0, 1}], vidversion : [1 .. n -> Versions],
          vstore : [1 .. n -> BatchIn],
          eid : [1 .. k -> {0}], edgeversion : [1 .. k -> Versions],
          estore : [1 .. k -> BatchIn]] : n \in 0 .. MaxBatch, k \in 0 .. 1}

\* the vertex loop that does not write the owner's store
RECURSIVE VertexLoopNoWrite(_, _)
VertexLoopNoWrite(s, i) ==
  IF s.fatal \/ i > Len(s.request.vid) THEN s
  ELSE LET r == get_vertex_if_version_less_than(s.store.v[s.request.vid[i] + 1],
                                                 s.request.vidversion[i],
                                                 s.request.vstore[i])
       IN  VertexLoopNoWrite([store |-> s.store,
                              request |-> [s.request EXCEPT !.vstore[i] = r.ret],
                              fatal |-> r.fatal], i + 1)

\* for (i = 0; i < request.vid.size(); ++i) request.vstore[i] =
\*   get_vertex_if_version_less_than(request.vid[i], request.vidversion[i],
\*                                   request.vstore[i])
RECURSIVE VertexLoop(_, _)
VertexLoop(s, i) ==
  IF s.fatal \/ i > Len(s.request.vid) THEN s
  ELSE LET r == get_vertex_if_version_less_than(s.store.v[s.request.vid[i] + 1],
                                                 s.request.vidversion[i],
                                                 s.request.vstore[i])
       IN  VertexLoop([store |-> [s.store EXCEPT !.v[s.request.vid[i] + 1] = r.store],
                       request |-> [s.request EXCEPT !.vstore[i] = r.ret],
                       fatal |-> r.fatal], i + 1)

\* the edge primitive of get_alot (by edge ID) and of get_alot2 (by pair)
BatchEdgePrimitive(kind, r, version, st) ==
  IF kind = "get_alot" THEN get_edge_if_version_less_than(r, version, st)
  ELSE get_edge_if_version_less_than2(r, version, st)

\* for (i = 0; i < request.eid.size(); ++i) request.estore[i] = ...
RECURSIVE EdgeLoop(_, _, _)
EdgeLoop(kind, s, i) ==
  IF s.fatal \/ i > Len(s.request.eid) THEN s
  ELSE LET r == BatchEdgePrimitive(kind, s.store.e[s.request.eid[i] + 1],
                                   s.request.edgeversion[i], s.request.estore[i])
       IN  EdgeLoop(kind,
                    [store |-> [s.store EXCEPT !.e[s.request.eid[i] + 1] = r.store],
                     request |-> [s.request EXCEPT !.estore[i] = r.ret],
                     fatal |-> r.fatal], i + 1)

\* both loops, then request.vidversion.clear(); request.edgeversion.clear()
Batch(kind, owner, request) ==
  LET s == EdgeLoop(kind, VertexLoop([store |-> owner, request |-> request,
                                      fatal |-> FALSE], 1), 1)
  IN  IF s.fatal THEN s
      ELSE [s EXCEPT !.request.vidversion = <<>>, !.request.edgeversion = <<>>]

\* distributed_graph::get_alot
get_alot(owner, request) == Batch("get_alot", owner, request)

\* distributed_graph::get_alot2
get_alot2(owner, request) == Batch("get_alot2", owner, request)

\* a store and a request; nothing was served yet
InitBatch ==
  \E k \in BatchKinds, st \in BatchStores, rq \in Requests :
    prim = [phase |-> "call", kind |-> k, owner |-> st, request |-> rq,
            batch |-> [store |-> st, request |-> rq, fatal |-> FALSE],
            single |-> [store |-> st, vstore |-> <<>>, estore |-> <<>>,
                        fatal |-> FALSE]]

\* get_alot / get_alot2 is run on the request
CallGetAlot ==
  /\ prim.phase = "call"
  /\ prim' = [prim EXCEPT !.phase = "done",
                          !.batch = IF prim.kind = "get_alot"
                                    THEN get_alot(prim.owner, prim.request)
                                    ELSE get_alot2(prim.owner, prim.request)]
  /\ UNCHANGED notPrim

\* the next vertex entry is served by get_vertex_if_version_less_than
SingleVertex ==
  /\ ~prim.single.fatal
  /\ Len(prim.single.vstore) < Len(prim.request.vid)
  /\ LET i == Len(prim.single.vstore) + 1
         vid == prim.request.vid[i]
         r == get_vertex_if_version_less_than(prim.single.store.v[vid + 1],
                                              prim.request.vidversion[i],
                                              prim.request.vstore[i])
     IN  prim' = [prim EXCEPT !.single.store.v[vid + 1] = r.store,
                              !.single.vstore = Append(@, r.ret),
                              !.single.fatal = r.fatal]
  /\ UNCHANGED notPrim

\* after the vertex entries, the next edge entry is served by
\* get_edge_if_version_less_than (get_alot) or ..._less_than2 (get_alot2)
SingleEdge ==
  /\ ~prim.single.fatal
  /\ Len(prim.single.vstore) = Len(prim.request.vid)
  /\ Len(prim.single.estore) < Len(prim.request.eid)
  /\ LET i == Len(prim.single.estore) + 1
         eid == prim.request.eid[i]
         r == BatchEdgePrimitive(prim.kind, prim.single.store.e[eid + 1],
                                 prim.request.edgeversion[i],
                                 prim.request.estore[i])
     IN  prim' = [prim EXCEPT !.single.store.e[eid + 1] = r.store,
                              !.single.estore = Append(@, r.ret),
                              !.single.fatal = r.fatal]
  /\ UNCHANGED notPrim

NextBatch == CallGetAlot \/ SingleVertex \/ SingleEdge

-----------------------------------------------------------------------------
\* One asynchronous synchronization followed by wait_for_all_async_syncs(),
\* next to the synchronous call from the same replicas

\* the records a replica can hold when the synchronization is called
StartRecords ==
  [data : Payloads, version : Versions, modified : BOOLEAN,
   snapshot_made : {FALSE}]

\* what synchronize_vertex / synchronize_edge with async = false make of the
\* stores s when called on ghost machine m for entity x
SyncOutcome(s, m, x) ==
  LET r == s[m][x]
      res == OwnerPrimitive(x, s[Owner][x], s[m]["v"].version, OutStore(r))
  IN  [fatal |-> res.fatal,
       store |-> IF res.fatal THEN s
                 ELSE [s EXCEPT ![Owner][x] = res.store,
                                ![m][x] = Merge(x, r, res.ret)]]

\* the replicas before the call, kept in prim with the entity to synchronize
InitAsyncEq ==
  /\ store \in [Machines -> [Ents -> StartRecords]]
  /\ \A x \in Ents : ~store[Owner][x].modified
  /\ store[Owner]["v"] = store[Owner]["e"]
  /\ \A m \in Ghosts : store[m]["v"].data = 0 /\ ~store[m]["v"].modified
  /\ canonical \in BOOLEAN
  /\ reqs = <<>>
  /\ reps = [m \in Ghosts |-> <<>>]
  /\ pending = [m \in Ghosts |-> 0]
  /\ waiting = [m \in Ghosts |-> "no"]
  /\ fatal = FALSE
  /\ synced = [m \in Ghosts |-> FALSE]
  /\ \E x \in Ents : prim = [phase |-> "async", x |-> x, start |-> store]

\* the application: one asynchronous synchronization of prim.x, then
\* wait_for_all_async_syncs(); the RPC layer runs the two handlers
NextAsyncEq ==
  \/ \E m \in Ghosts : waiting[m] = "no" /\ AsyncSynchronize(m, prim.x)
  \/ AsyncGet
  \/ \E m \in Ghosts : Reply(m)
  \/ \E m \in Ghosts : Issued(m) = MaxAsync /\ WaitCall(m)
  \/ \E m \in Ghosts : WaitReturn(m)

-----------------------------------------------------------------------------
\* Specifications

\* the components a specification does not exercise stay as constructed
InitSchedSpec ==
  /\ InitSched /\ InitSync /\ canonical = FALSE /\ prim = PrimIdle
  /\ AccIdle /\ BootIdle /\ LsIdle /\ ArIdle /\ LkIdle /\ SlIdle

SpecSched ==
  InitSchedSpec /\ [][NextSched]_vars /\ FairSched

InitSyncSpec ==
  /\ InitSched /\ InitSync /\ canonical = TRUE /\ prim = PrimIdle
  /\ AccIdle /\ BootIdle /\ LsIdle /\ ArIdle /\ LkIdle /\ SlIdle

SpecSync ==
  InitSyncSpec /\ [][NextSync]_vars /\ FairSync

InitPrimSpec ==
  /\ InitSched /\ InitSync /\ canonical = FALSE /\ InitPrim
  /\ AccIdle /\ BootIdle /\ LsIdle /\ ArIdle /\ LkIdle /\ SlIdle

SpecPrim ==
  InitPrimSpec /\ [][NextPrim]_vars

InitAccessSpec ==
  /\ InitSched /\ InitAccess /\ prim = PrimIdle /\ BootIdle /\ LsIdle /\ ArIdle /\ LkIdle /\ SlIdle

SpecAccess ==
  InitAccessSpec /\ [][NextAccess]_vars

InitBootSpec ==
  /\ InitSched /\ InitSync /\ canonical = FALSE /\ prim = PrimIdle
  /\ AccIdle /\ InitBoot /\ LsIdle /\ ArIdle /\ LkIdle /\ SlIdle

SpecBoot ==
  InitBootSpec /\ [][NextBoot]_vars

InitStoreSpec ==
  /\ InitSched /\ InitSync /\ canonical = FALSE /\ prim = PrimIdle
  /\ AccIdle /\ BootIdle /\ InitStore /\ ArIdle /\ LkIdle /\ SlIdle

SpecStore ==
  InitStoreSpec /\ [][NextStore]_vars

InitColoringSpec ==
  /\ InitSched /\ InitSync /\ canonical = FALSE /\ prim = PrimIdle
  /\ AccIdle /\ BootIdle /\ InitStore /\ ArIdle /\ LkIdle /\ SlIdle

SpecColoring ==
  InitColoringSpec /\ [][NextColoring]_vars

InitArchiveSpec ==
  /\ InitSched /\ InitSync /\ canonical = FALSE /\ prim = PrimIdle
  /\ AccIdle /\ BootIdle /\ LsIdle /\ InitArchive /\ LkIdle /\ SlIdle

SpecArchive ==
  InitArchiveSpec /\ [][NextArchive]_vars

InitAddEdgeSpec ==
  /\ InitSched /\ InitSync /\ canonical = FALSE /\ prim = PrimIdle
  /\ AccIdle /\ BootIdle /\ InitStore /\ ArIdle /\ LkIdle /\ SlIdle

SpecAddEdge ==
  InitAddEdgeSpec /\ [][NextAddEdge]_vars

InitUpdateSpec ==
  /\ InitSched /\ InitSync /\ canonical = FALSE /\ InitUpdate
  /\ AccIdle /\ BootIdle /\ LsIdle /\ ArIdle /\ LkIdle /\ SlIdle

SpecUpdate ==
  InitUpdateSpec /\ [][NextUpdate]_vars

InitLockSpec ==
  /\ InitSched /\ InitSync /\ canonical = FALSE /\ prim = PrimIdle
  /\ AccIdle /\ BootIdle /\ LsIdle /\ ArIdle /\ InitLock /\ SlIdle

SpecLock ==
  InitLockSpec /\ [][NextLock]_vars

InitSchedLocksSpec ==
  /\ InitSched /\ InitSync /\ canonical = FALSE /\ prim = PrimIdle
  /\ AccIdle /\ BootIdle /\ LsIdle /\ ArIdle /\ LkIdle /\ InitSl

SpecSchedLocks ==
  InitSchedLocksSpec /\ [][NextSl]_vars

InitBatchSpec ==
  /\ InitSched /\ InitSync /\ canonical = FALSE /\ InitBatch
  /\ AccIdle /\ BootIdle /\ LsIdle /\ ArIdle /\ LkIdle /\ SlIdle

SpecBatch ==
  InitBatchSpec /\ [][NextBatch]_vars

InitAsyncEqSpec ==
  /\ InitSched /\ InitAsyncEq
  /\ AccIdle /\ BootIdle /\ LsIdle /\ ArIdle /\ LkIdle /\ SlIdle

SpecAsyncEq ==
  InitAsyncEqSpec /\ [][NextAsyncEq]_vars

SpecStartRace ==
  InitSchedLocksSpec /\ [][NextStartRace]_vars

-----------------------------------------------------------------------------
\* Scheduler properties

\* number of places that hold the ID v: queues and schedule calls about to push
QueueCount(v) ==
  enq[v] + OccursUpTo(in_queues, v, 0) + OccursUpTo(out_queues, v, 0)
         + OccursIn(master_queue, v)

MasterIds == {v \in Vertices : OccursIn(master_queue, v) > 0}

\* C1: every message-map entry is handed out as NEW_TASK by at most one call
\* (get_next or get_specific), whatever the interleaving and however many
\* queues hold its vertex ID.
C1_AtMostOnce == \A v \in Vertices : handed[v] <= 1

\* an entry was handed out while a second copy of its ID is still queued
C1_Witness ==
  \E v \in Vertices : handed[v] = 1 /\ ~messages[v].has /\ QueueCount(v) >= 1

C4_EmptyMeansAllEmpty ==
  [][\A w \in Cpus :
       (pc[w] = "pop" /\ pc'[w] = "master" /\ out_queues[w] = <<>> /\ ~late) =>
          (in_queues'[w] = <<>> /\ MasterIds' = {})]_vars

-----------------------------------------------------------------------------
\* Synchronization properties

\* C5: the owner-side version rule, for the vertex primitive and both edge
\* primitives.  With ov the owner's version and gv the caller's: ov > gv
\* returns hasdata = true with the owner's (data, ov) and leaves the owner
\* unchanged; ov < gv with a payload sets the owner's data to the payload and
\* its version to gv and returns hasdata = false; ov < gv without a payload is
\* a fatal assertion failure; ov = gv returns hasdata = false and leaves the
\* owner unchanged.
C5_OwnerRule ==
  prim.phase = "done" =>
    LET ov == prim.owner.version
        gv == prim.version
    IN  /\ ov > gv =>
             /\ ~prim.fatal
             /\ prim.res = [hasdata |-> TRUE, data |-> prim.owner.data,
                            version |-> ov]
             /\ prim.after = prim.owner
        /\ (ov < gv /\ prim.st.hasdata) =>
             /\ ~prim.fatal
             /\ ~prim.res.hasdata
             /\ prim.after.data = prim.st.data
             /\ prim.after.version = gv
        /\ (ov < gv /\ ~prim.st.hasdata) => prim.fatal
        /\ ov = gv =>
             /\ ~prim.fatal
             /\ ~prim.res.hasdata
             /\ prim.after = prim.owner

\* an edge primitive has adopted a newer payload that differs from the owner's
C5_Witness ==
  /\ prim.phase = "done"
  /\ prim.kind = "edge2"
  /\ prim.owner.version < prim.version
  /\ prim.st.hasdata
  /\ prim.st.data # prim.owner.data
  /\ prim.after.data = prim.st.data
  /\ prim.after.version = prim.version

\* C6: after synchronize_vertex(v) has returned on a ghost machine m, and with
\* no write to v since, the ghost's version and data equal the owner's.
C6_SyncPostcondition ==
  \A m \in Ghosts :
    synced[m] =>
      /\ store[m]["v"].version = store[Owner]["v"].version
      /\ store[m]["v"].data = store[Owner]["v"].data

\* C7: after local writes followed by a synchronization, no replica has the
\* owner's version and a different payload.
C7_NoSameVersionDivergence ==
  \A m \in Ghosts :
    (synced[m] /\ store[m]["v"].version = store[Owner]["v"].version)
      => store[m]["v"].data = store[Owner]["v"].data

\* C8: no step of a store update or of a synchronization lowers the version of
\* any vertex or edge replica.
C8_VersionMonotonic ==
  [][\A m \in Machines, x \in Ents :
       store'[m][x].version >= store[m][x].version]_vars

\* C9: pending_async_updates equals the number of asynchronous requests of
\* the machine whose reply has not been processed, and is never below zero.
C9_PendingCount ==
  \A m \in Ghosts : pending[m] = Outstanding(m) /\ pending[m] >= 0

\* C10: wait_for_all_async_syncs() returns only when every asynchronous
\* synchronization issued before the call has had its reply merged.
C10_WaitReturnsWhenMerged ==
  [][\A m \in Ghosts :
       (waiting[m] = "waiting" /\ waiting'[m] = "returned")
         => Outstanding(m) = 0]_vars

\* second half of C10: with every one-way call delivered and no new
\* asynchronous synchronization, a call of wait_for_all_async_syncs() returns
\* unless the process aborts
WaitTerminates ==
  \A m \in Ghosts :
    (waiting[m] = "waiting") ~> (waiting[m] = "returned" \/ fatal)

-----------------------------------------------------------------------------
\* Accessor properties

\* C11: get_vertex_data(v) on a machine that holds v only as a ghost, before
\* any synchronization, issues exactly one RPC to the owner and returns the
\* owner's payload; a read accessor serves from the local store only on the
\* owner.
C11_GhostReadThrough ==
  [][(acc' # acc) =>
       /\ (acc'.op = "get_vertex_data" /\ acc'.caller \in Ghosts /\ ~everSync)
            => (acc'.rpcs = 1 /\ acc'.ret = store[Owner]["v"].data)
       /\ (acc'.op \in {"get_vertex_data", "get_edge_data",
                        "get_edge_data_from_eid"} /\ acc'.rpcs = 0)
            => acc'.caller = Owner]_vars

\* C12: every set_vertex_data, set_vertex_data_async, set_edge_data and
\* set_edge_data_async call applies the payload to the owner's copy (at once,
\* or by a one-way call to the owner), and never writes the replica of a caller
\* that is not the owner.
C12_WritesTargetOwner ==
  [][(acc' # acc /\ acc'.op \in {"set_vertex_data", "set_vertex_data_async",
                                 "set_edge_data", "set_edge_data_async"}) =>
       /\ \/ store'[Owner][acc'.x].data = acc'.val
          \/ oneway' = Append(oneway, [x |-> acc'.x, data |-> acc'.val])
       /\ acc'.caller \in Ghosts =>
            store'[acc'.caller][acc'.x] = store[acc'.caller][acc'.x]]_vars

\* C13: a get_vertex_data / get_edge_data that directly follows the same
\* caller's synchronous set_vertex_data / set_edge_data of d returns d.
C13_ReadYourWrites ==
  [][/\ (acc.op = "set_vertex_data" /\ acc'.op = "get_vertex_data"
         /\ acc'.caller = acc.caller) => acc'.ret = acc.val
     /\ (acc.op = "set_edge_data" /\ acc'.op = "get_edge_data"
         /\ acc'.caller = acc.caller) => acc'.ret = acc.val]_vars

\* C14: a step that writes a record's data increments the record's version
\* and leaves snapshot_made false, and a record whose version has changed has
\* snapshot_made false.
C14_WriteBumpsVersion ==
  [][\A m \in Machines, x \in Ents :
       /\ store'[m][x].data # store[m][x].data =>
            /\ store'[m][x].version = store[m][x].version + 1
            /\ ~store'[m][x].snapshot_made
       /\ store'[m][x].version # store[m][x].version =>
            ~store'[m][x].snapshot_made]_vars

\* C15: under edge canonical numbering an edge-ID operation that the caller
\* cannot serve locally aborts on its assertion with no RPC issued, and
\* synchronize_edge requests the (source, target) primitive.
C15_CanonicalRefusesEid ==
  canonical =>
    /\ (acc.op \in EidReads /\ ~InFragment(acc.caller))
         => (fatal /\ acc.rpcs = 0)
    /\ (acc.op = "set_edge_data_from_eid" /\ ~OwnsLocally(acc.caller))
         => (fatal /\ acc.rpcs = 0)
    /\ EdgePrimitive = "edge2"

\* under canonical numbering a machine without the edge has asked for its data
\* by edge ID and aborted
C15_Witness ==
  /\ canonical
  /\ acc.op = "get_edge_data_from_eid"
  /\ acc.caller \in Outsiders
  /\ fatal
  /\ acc.rpcs = 0

\* C16: when synchronize_scope(v) returns on a ghost machine with no write in
\* flight, each ghost vertex and ghost edge of the scope has its owner's
\* version and data.
C16_ScopeReconciles ==
  [][(acc' # acc /\ acc'.op = "synchronize_scope" /\ oneway = <<>>) =>
       \A x \in Ents :
         /\ store'[acc'.caller][x].version = store'[Owner][x].version
         /\ store'[acc'.caller][x].data = store'[Owner][x].data]_vars

\* C17: after bootstrap every edge with a global edge ID has exactly one
\* published owner in the edge directory, and it is the owner of the
\* edge's target vertex.
C17_EdgeOwnerIsTargetOwner ==
  Booted =>
    \A e \in BootEids :
      boot.globaleid2owner[e] = {BootOwner(BootEdge(e)[2])}

\* the edge ids of vec are in strictly increasing (source, target) order
StrictlySorted(vec) ==
  \A i \in 1 .. Len(vec), j \in 1 .. Len(vec) :
    i < j => edge_id_less(vec[i], vec[j])

\* C18 (order): after finalize() every in_edges[v] and out_edges[v] is in
\* strictly increasing lexicographic (source, target) order, without
\* duplicates, whatever add_edge calls came before.
C18_FinalizedStrictlySorted ==
  lsres.op = "finalize" =>
    \A v \in StoreVerts :
      StrictlySorted(ls.in_edges[v]) /\ StrictlySorted(ls.out_edges[v])

\* the pair (source, target) was added by add_edge
Added(source, target) ==
  \E i \in 1 .. Len(ls.edges) : ls.edges[i] = <<source, target>>

\* C19: find(src, tgt) on in-range vertices does not fail an assertion and
\* returns (true, e) with e an edge from src to tgt if such an edge was
\* added and (false, _) otherwise, before and after finalize().
C19_FindTotalAndCorrect ==
  lsres.op = "find" =>
    /\ ~lsres.ret.aborted
    /\ lsres.ret.first = Added(lsres.source, lsres.target)
    /\ lsres.ret.first =>
         /\ lsres.ret.second \in 0 .. (Len(ls.edges) - 1)
         /\ At(ls.edges, lsres.ret.second) = <<lsres.source, lsres.target>>

\* C20: valid_coloring() called right after compute_coloring() returns
\* true, for every graph without self-loops.
C20_ColoringValid ==
  [][(lsres.op = "compute_coloring" /\ lsres'.op = "valid_coloring")
       => lsres'.ret.first]_vars

\* C21: the store read by load from the archive that save wrote equals the
\* saved store in nvertices, nedges, edges, adjacency lists, colors,
\* finalized and every record's data, version, modified and snapshot_made.
C21_SaveLoadRoundTrip ==
  (ar # <<>> /\ ar.pc = "loaded") => ar.L = ar.S

C23_ConditionalUpdate ==
  (prim.phase = "done" /\ prim.kind \in UpdateKinds) =>
    IF prim.version >= prim.owner.version
    THEN prim.after = [data |-> prim.st.data, version |-> prim.version,
                       modified |-> FALSE, snapshot_made |-> FALSE]
    ELSE prim.after = prim.owner

\* an update at the record's own version has replaced the data and cleared
\* the flags of a modified record
C23_Witness ==
  /\ prim.phase = "done"
  /\ prim.kind = "conditional_update_vertex"
  /\ prim.version = prim.owner.version
  /\ prim.owner.modified /\ prim.owner.snapshot_made
  /\ prim.st.data # prim.owner.data
  /\ prim.after.data = prim.st.data
  /\ ~prim.after.modified

-----------------------------------------------------------------------------
\* Locking properties

\* C24: every step that writes the data or the version of a vertex's record
\* (an edge's record) is taken by a thread that holds the lock of that vertex
\* (of the edge's target), no thread holds two vertex locks at once, and no
\* step lowers the version of a record
C24_PerVertexLocking ==
  [][/\ \A x \in Entities :
          /\ lk'.rec[x] # lk.rec[x] =>
               \E t \in Threads : lk'.thr[t] # lk.thr[t] /\ lk.locks[LockOf(x)] = t
          /\ lk'.rec[x].version >= lk.rec[x].version
     /\ \A t \in Threads :
          Cardinality({v \in LockVertices : lk.locks[v] = t}) <= 1]_vars

-----------------------------------------------------------------------------
\* Scheduler lock properties

\* the lock a thread is requesting: 0 .. NumCpus - 1 are the in_queue_locks,
\* NumCpus is master_lock, -1 is none
Wanted(t) ==
  IF sl.thr[t].pc \in {"lock_in", "gn_lock_in"} THEN sl.thr[t].cpuid
  ELSE IF sl.thr[t].pc \in {"lock_master", "gn_lock_master"} THEN NumCpus
  ELSE -1

Holder(l) == IF l = NumCpus THEN sl.master_lock ELSE sl.in_queue_locks[l]

\* every thread of S waits for a lock that a thread of S holds
Deadlocked(S) ==
  \A t \in S : Wanted(t) # -1 /\ Holder(Wanted(t)) \in S

\* C25: no thread requests an in_queue lock while it holds master_lock, no
\* thread holds two in_queue locks, and no set of threads waits in a cycle
C25_LockOrder ==
  /\ \A t \in SchedThreads :
       /\ sl.thr[t].pc \in {"lock_in", "gn_lock_in"} => sl.master_lock # t
       /\ Cardinality({c \in Cpus : sl.in_queue_locks[c] = t}) <= 1
  /\ \A S \in SUBSET SchedThreads : S # {} => ~Deadlocked(S)

\* a schedule call holds an in_queue lock and waits for master_lock, which a
\* get_next call holds
C25_Witness ==
  \E t \in SchedThreads, w \in Cpus :
    /\ sl.thr[t].pc = "lock_master" /\ sl.in_queue_locks[sl.thr[t].cpuid] = t
    /\ sl.master_lock = w /\ sl.thr[w].pc = "gn_master"

-----------------------------------------------------------------------------
\* Sub-queue properties

\* the step is the locked section of a schedule call
EnqueueStep == \E v \in Vertices : enq'[v] < enq[v]

\* the sub-queue at the tail of the master queue
Back(master) == master[Len(master)]

C28_MasterFifo ==
  /\ [](\A i \in DOMAIN sl.taken : sl.taken[i][1] = i)
  /\ [](/\ Len(sl.ids) = Len(master_queue)
        /\ \A i \in DOMAIN sl.ids : sl.ids[i] = Len(sl.taken) + i
        /\ Len(sl.taken) + Len(sl.ids) = sl.appended)
  /\ [][master_queue' # master_queue =>
          \/ /\ Len(master_queue') > Len(master_queue)
             /\ SubSeq(master_queue', 1, Len(master_queue)) = master_queue
          \/ /\ master_queue' = Tail(master_queue)
             /\ \E w \in Cpus :
                  /\ sl.master_lock = w
                  /\ out_queues' = [out_queues EXCEPT ![w] = Head(master_queue)]
                  /\ sl'.taken = Append(sl.taken, <<Head(sl.ids), w>>)]_vars

\* one sub-queue flushed by schedule and the two appended by start() were taken
\* in that order, by both workers
C28_Witness ==
  /\ Len(sl.taken) = 3
  /\ \E i, j \in DOMAIN sl.taken : sl.taken[i][2] # sl.taken[j][2]
  /\ \E t \in SchedThreads : sl.thr[t].pc = "unlock_in" /\ sl.appended = 3

-----------------------------------------------------------------------------
\* start()

\* the step is a call of start()
StartStep == ~started /\ started'

\* start() appends in_queues[0], ..., in_queues[ncpus - 1], in this order and
\* empty ones included, at the tail of the master queue and leaves every
\* in_queue empty
StartFlushes ==
  [][StartStep =>
       /\ master_queue' = master_queue \o [i \in 1 .. NumCpus |-> in_queues[i - 1]]
       /\ \A c \in Cpus : in_queues'[c] = <<>>]_vars

-----------------------------------------------------------------------------
\* Version reconciliation

\* what synchronize_vertex on ghost machine m does to the two records when the
\* versions are equal and when the modified ghost is ahead
SyncCases(m) ==
  LET g == store[m]["v"]
      o == store[Owner]["v"]
      res == get_vertex_if_version_less_than(o, g.version, OutStore(g))
  IN  /\ g.version = o.version =>
           /\ ~res.ret.hasdata /\ ~fatal'
           /\ store'[Owner]["v"] = o
           /\ store'[m]["v"] = g
      /\ (g.version > o.version /\ g.modified) =>
           /\ ~res.ret.hasdata /\ ~fatal'
           /\ store'[Owner]["v"].data = g.data
           /\ store'[Owner]["v"].version = g.version
           /\ store'[m]["v"] = g

\* the same for the request the owner takes from the one-way calls
AsyncCases ==
  LET q == Head(reqs)
      o == store[Owner]["v"]
      sent == reps'[q.src][Len(reps'[q.src])]
  IN  q.x = "v" =>
        /\ q.version = o.version =>
             /\ ~fatal' /\ sent.x = "v" /\ ~sent.st.hasdata
             /\ store'[Owner]["v"] = o
        /\ (q.version > o.version /\ q.st.hasdata) =>
             /\ ~fatal' /\ sent.x = "v" /\ ~sent.st.hasdata
             /\ store'[Owner]["v"].data = q.st.data
             /\ store'[Owner]["v"].version = q.version

-----------------------------------------------------------------------------
\* schedule(v, m)

\* number of entries held by the in_queues and the master queue
RECURSIVE LenUpTo(_, _)
LenUpTo(queues, i) ==
  IF i >= NumCpus THEN 0 ELSE Len(queues[i]) + LenUpTo(queues, i + 1)

Queued == LenUpTo(in_queues, 0) + SumSeq([i \in DOMAIN master_queue |->
                                            Len(master_queue[i])])

\* the thread is inside the part of schedule that follows messages.add
InSchedule(t) ==
  sl.thr[t].pc \in {"lock_in", "push", "lock_master", "swap", "unlock_in"}

\* C31: schedule(v, m) on a pending vertex combines m into the entry and
\* returns: no queue changes and new_job is not called. On a vertex that is
\* not pending the call goes on to push v once, to the in_queue of the cpu w it
\* chose, and to call new_job(w) once: the push appends v to in_queues[w] only,
\* the flush moves entries without adding any, and new_job is called by the
\* last step of the call, for w
C31_ScheduleFrame ==
  [][/\ \A t \in SchedThreads, v \in Vertices, p \in Prios :
          SlSchedule(t, v, p) =>
            /\ UNCHANGED <<master_queue, in_queues, out_queues>>
            /\ sl'.jobs = sl.jobs
            /\ IF messages[v].has
               THEN /\ sl' = [sl EXCEPT !.scheduled[v] = @ + p]
                    /\ messages' = [messages EXCEPT ![v].prio = @ + p]
               ELSE /\ sl'.thr[t].pc = "lock_in" /\ sl'.thr[t].vid = v
                    /\ messages' = [messages EXCEPT ![v] = [has |-> TRUE, prio |-> p]]
     /\ \A t \in SchedThreads :
          LET w == sl.thr[t].cpuid IN
            /\ (InSchedule(t) /\ sl'.thr[t] # sl.thr[t]) =>
                 /\ sl'.thr[t].pc = "idle" \/
                      (sl'.thr[t].cpuid = w /\ sl'.thr[t].vid = sl.thr[t].vid)
                 /\ sl.thr[t].pc = "lock_in" => sl'.thr[t].pc = "push"
                 /\ sl.thr[t].pc = "push" =>
                      /\ in_queues' = [in_queues EXCEPT ![w] = Append(@, sl.thr[t].vid)]
                      /\ sl'.thr[t].pc \in {"lock_master", "unlock_in"}
                 /\ sl.thr[t].pc = "lock_master" => sl'.thr[t].pc = "swap"
                 /\ sl.thr[t].pc = "swap" => sl'.thr[t].pc = "unlock_in"
                 /\ sl.thr[t].pc # "push" => Queued' = Queued
                 /\ IF sl.thr[t].pc = "unlock_in"
                    THEN /\ sl'.thr[t].pc = "idle"
                         /\ sl'.jobs = [sl.jobs EXCEPT ![w] = @ + 1]
                    ELSE sl'.jobs = sl.jobs
     /\ sl'.jobs # sl.jobs =>
          \E t \in SchedThreads : sl.thr[t].pc = "unlock_in" /\ sl'.thr[t].pc = "idle"]_vars

\* a schedule(v, m) on a pending vertex has returned after another had pushed
\* v and called new_job: one queue entry, one new_job, two messages combined
C31_Witness ==
  \E v \in Vertices :
    /\ messages[v].has /\ messages[v].prio \in {4, 7, 10}
    /\ Queued = 1 /\ SumSeq([i \in 1 .. NumCpus |-> sl.jobs[i - 1]]) = 1
    /\ \A t \in SchedThreads : sl.thr[t].pc = "idle"
    /\ ncalls = 2

-----------------------------------------------------------------------------
\* get_next and stale entries

\* worker w is at the pop of get_next and takes the step
PopStep(w) == pc[w] = "pop" /\ pc'[w] = "master"

\* the pop of worker w ends its get_next call: there is nothing to pop, or
\* the entry popped has a message
Returns(w) ==
  /\ PopStep(w)
  /\ out_queues[w] = <<>> \/ messages[Head(out_queues[w])].has

\* C32: a pop of get_next(w) that finds the ID of a vertex without a message
\* removes the ID, returns nothing and goes round the loop; NEW_TASK is returned
\* for the popped vertex when it has a message, which the pop removes; EMPTY is
\* returned when there is nothing to pop; and every worker's get_next reaches
\* a return again and again, the calls that add entries being finitely many
C32_StaleSkipped ==
  /\ [][\A w \in Cpus : PopStep(w) =>
          IF out_queues[w] = <<>>
          THEN /\ ret'.status = "EMPTY"
               /\ UNCHANGED <<messages, out_queues>>
          ELSE LET v == Head(out_queues[w]) IN
                 /\ out_queues' = [out_queues EXCEPT ![w] = Tail(@)]
                 /\ IF messages[v].has
                    THEN /\ ret'.status = "NEW_TASK" /\ ret'.vid = v
                         /\ ret'.prio = messages[v].prio
                         /\ ~messages'[v].has
                    ELSE /\ ret' = ret
                         /\ messages' = messages]_vars
  /\ \A w \in Cpus : []<><<Returns(w)>>_vars

\* the entry that schedule(v, m) created and queued was consumed by
\* get_specific; get_next has popped the stale ID and has returned EMPTY
C32_Witness ==
  \E v \in Vertices :
    /\ ncalls = 1 /\ owedCall[v] /\ ~clean[v]
    /\ handed[v] = 1 /\ ~messages[v].has
    /\ QueueCount(v) = 0
    /\ ret.status = "EMPTY"

-----------------------------------------------------------------------------
\* Order inside a sub-queue

\* s is an initial part of t
IsPrefix(s, t) == Len(s) <= Len(t) /\ SubSeq(t, 1, Len(s)) = s

\* the sub-queues the step appended to the master queue
AppendedNow(k) == SubSeq(master_queue', Len(master_queue) - k + 1, Len(master_queue'))

\* C33: the IDs of an in_queue keep the order of their pushes until they are
\* popped: an in_queue changes only by a push at its back or by being moved
\* whole (to the master tail or to its worker's empty out_queue); a sub-queue
\* in the master is never changed and leaves it whole, to an empty out_queue;
\* an out_queue filled this way changes only by the pop of its front, and the
\* pop hands out no other vertex than the one popped
C33_SubQueueFifo ==
  [][\E k \in {0, 1} :
       /\ k <= Len(master_queue)
       /\ IsPrefix(SubSeq(master_queue, k + 1, Len(master_queue)), master_queue')
       /\ \A i \in DOMAIN AppendedNow(k) :
            \/ started' # started /\ AppendedNow(k)[i] = in_queues[i - 1]
            \/ \E c \in Cpus : AppendedNow(k)[i] = in_queues[c] /\ in_queues'[c] = <<>>
       /\ \A c \in Cpus :
            \/ IsPrefix(in_queues[c], in_queues'[c]) /\ Len(in_queues'[c]) <= Len(in_queues[c]) + 1
            \/ /\ in_queues'[c] = <<>>
               /\ \/ AppendedNow(k) # <<>>
                  \/ out_queues[c] = <<>> /\ out_queues'[c] = in_queues[c]
       /\ \A w \in Cpus :
            \/ out_queues'[w] = out_queues[w]
            \/ /\ out_queues[w] # <<>> /\ out_queues'[w] = Tail(out_queues[w])
               /\ \A v \in Vertices \ {Head(out_queues[w])} : messages'[v] = messages[v]
            \/ /\ out_queues[w] = <<>>
               /\ \/ k = 1 /\ out_queues'[w] = Head(master_queue)
                  \/ out_queues'[w] = in_queues[w] /\ in_queues'[w] = <<>>]_vars

\* the one sub-queue flushed so far held both vertices; a worker took it and
\* has popped and been handed the first of them, the second is next
C33_Witness ==
  \E w \in Cpus, a, b \in Vertices :
    /\ a # b /\ ~started
    /\ sl.appended = 1 /\ sl.taken = <<<<1, w>>>>
    /\ out_queues[w] = <<b>>
    /\ ~messages[a].has /\ messages[b].has
    /\ sl.thr[w].pc = "idle"

-----------------------------------------------------------------------------
\* Batched synchronization

\* every entry was served one by one, or one of them failed its assertion
SingleDone ==
  \/ prim.single.fatal
  \/ /\ Len(prim.single.vstore) = Len(prim.request.vid)
     /\ Len(prim.single.estore) = Len(prim.request.eid)

\* C34: get_alot / get_alot2 leave the owner's store as the single-entity
\* primitives do when applied to the entries in index order, fail an assertion
\* exactly when one of those does, and otherwise return the same results in
\* vstore[i] and estore[i], in a reply with as many vertex and edge entries as
\* the request
C34_BatchEqualsSingle ==
  (prim.phase = "done" /\ SingleDone) =>
     /\ prim.batch.fatal = prim.single.fatal
     /\ prim.batch.store = prim.single.store
     /\ ~prim.batch.fatal =>
          /\ prim.batch.request.vstore = prim.single.vstore
          /\ prim.batch.request.estore = prim.single.estore
          /\ prim.batch.request.vid = prim.request.vid
          /\ prim.batch.request.eid = prim.request.eid
          /\ Len(prim.batch.request.vstore) = Len(prim.request.vid)
          /\ Len(prim.batch.request.estore) = Len(prim.request.eid)

\* a request with two entries for the same vertex and one edge entry: the
\* first entry made the owner adopt the caller's version, the second was
\* answered with the adopted data
C34_Witness ==
  /\ prim.phase = "done" /\ SingleDone /\ ~prim.batch.fatal
  /\ Len(prim.request.vid) = 2 /\ Len(prim.request.eid) = 1
  /\ prim.request.vid[1] = prim.request.vid[2]
  /\ ~prim.batch.request.vstore[1].hasdata
  /\ prim.batch.request.vstore[2].hasdata
  /\ prim.batch.request.vstore[2].data = 1
  /\ prim.batch.store # prim.owner

-----------------------------------------------------------------------------
\* Asynchronous and synchronous synchronization

\* stores a and b hold the same data and version of entity x on every machine
SameReplicas(a, b, x) ==
  \A m \in Machines : /\ a[m][x].data = b[m][x].data
                      /\ a[m][x].version = b[m][x].version

\* C35: when wait_for_all_async_syncs() has returned after an asynchronous
\* synchronize_vertex / synchronize_edge, the ghost and the owner hold the data
\* and versions the synchronous call leaves from the same starting replicas
C35_AsyncEqualsSync ==
  \A m \in Ghosts :
    (prim.phase = "async" /\ waiting[m] = "returned") =>
       LET s == SyncOutcome(prim.start, m, prim.x)
       IN  /\ fatal = s.fatal
           /\ ~s.fatal => SameReplicas(store, s.store, prim.x)

\* the same comparison once the request was served and its reply merged
C35_EqualWhenMerged ==
  \A m \in Ghosts :
    (prim.phase = "async" /\ Issued(m) = MaxAsync /\ Outstanding(m) = 0) =>
       LET s == SyncOutcome(prim.start, m, prim.x)
       IN  ~s.fatal /\ ~fatal /\ SameReplicas(store, s.store, prim.x)

\* a modified ghost ahead of its owner whose request was served and merged
C35_MergedWitness ==
  \E m \in Ghosts :
    /\ prim.phase = "async" /\ Issued(m) = MaxAsync /\ Outstanding(m) = 0
    /\ prim.start[m][prim.x].modified
    /\ prim.start[m]["v"].version > prim.start[Owner][prim.x].version
    /\ store[Owner][prim.x] # prim.start[Owner][prim.x]

-----------------------------------------------------------------------------
\* The modified flag and the version

\* C36: after set_vertex_version / set_edge_version, as the owner calls it when
\* it adopts a caller's version, the record's modified flag is false
C36_VersionClearsModified ==
  (prim.phase = "done" /\ ~prim.fatal /\ prim.after.version # prim.owner.version)
     => ~prim.after.modified

-----------------------------------------------------------------------------
\* The order of the greedy coloring

\* the position of vertex v in the sorted permutation
ColoredAt(v) == CHOOSE i \in 1 .. NumStoreVerts : permutation[i] = v

\* C37: compute_coloring colors a vertex of larger in-degree before every
\* vertex of smaller in-degree, a vertex without in-edges included, and returns
\* the number of distinct colors in use
C37_DecreasingInDegree ==
  lsres.op = "compute_coloring" =>
     /\ \A u \in StoreVerts : \A w \in StoreVerts :
          Len(ls.in_edges[u]) > Len(ls.in_edges[w]) => ColoredAt(u) < ColoredAt(w)
     /\ lsres.ret.second = Cardinality({ls.vcolors[v] : v \in StoreVerts})

\* the part of C37 about the returned value
C37_ReturnsColorCount ==
  lsres.op = "compute_coloring" =>
     lsres.ret.second = Cardinality({ls.vcolors[v] : v \in StoreVerts})

\* the order the code does follow: among vertices with in-edges, larger
\* in-degree first; vertices without in-edges before all of them
C37_OrderOfKeys ==
  lsres.op = "compute_coloring" =>
     \A u \in StoreVerts : \A w \in StoreVerts :
        /\ (Len(ls.in_edges[u]) > Len(ls.in_edges[w]) /\ Len(ls.in_edges[w]) > 0)
             => ColoredAt(u) < ColoredAt(w)
        /\ (Len(ls.in_edges[u]) = 0 /\ Len(ls.in_edges[w]) > 0)
             => ColoredAt(u) < ColoredAt(w)
        /\ (Len(ls.in_edges[u]) = Len(ls.in_edges[w]) /\ u < w)
             => ColoredAt(u) < ColoredAt(w)

-----------------------------------------------------------------------------
\* The ID maps of a fragment

\* the atoms machine m loads
LoadedAtoms(m) ==
  {atoms_in_curpart(boot.in, m)[i] : i \in 1 .. Len(atoms_in_curpart(boot.in, m))}

\* the global IDs of the end points of the edges of atom a
EndPoints(a) ==
  UNION {{At(globalvids(boot.in, a), edge_src_dest(boot.in, a)[j][1]),
          At(globalvids(boot.in, a), edge_src_dest(boot.in, a)[j][2])} :
         j \in 1 .. Len(edge_src_dest(boot.in, a))}

\* C38: once a machine has built its fragment, local2globalvid is strictly
\* increasing, global2localvid is its inverse, every end point of a local edge
\* has a local ID, and every local edge ID was added to the store exactly once
C38_IdMaps ==
  \A m \in Machines :
    (boot # NotBooted /\ boot.pc[m] \in {"eids", "data", "done"}) =>
       LET l2g == boot.local2globalvid[m]
           calls == boot.add_edge[m]
       IN /\ \A i \in 1 .. Len(l2g) : \A j \in 1 .. Len(l2g) :
               i < j => l2g[i] < l2g[j]
          /\ \A i \in 1 .. Len(l2g) : global2localvid(m, l2g[i]) = i - 1
          /\ \A a \in LoadedAtoms(m) : \A g \in EndPoints(a) :
               \E i \in 1 .. Len(l2g) : l2g[i] = g
          /\ \A c \in 1 .. Len(calls) :
               /\ boot.local2globalvid[m][calls[c][2] + 1] =
                    BootEdge(boot.local2globaleid[m][calls[c][1] + 1])[1]
               /\ boot.local2globalvid[m][calls[c][3] + 1] =
                    BootEdge(boot.local2globaleid[m][calls[c][1] + 1])[2]
          /\ \A e \in 0 .. (Len(boot.local2globaleid[m]) - 1) :
               Cardinality({c \in 1 .. Len(calls) : calls[c][1] = e}) = 1

\* a machine that loaded two atoms listing the same edge and the same vertex
C38_Witness ==
  \E m \in Machines :
    /\ boot # NotBooted /\ boot.pc[m] = "done"
    /\ \E a \in LoadedAtoms(m) : \E b \in LoadedAtoms(m) :
         /\ a # b
         /\ AtomEids(boot.in, a) \cap AtomEids(boot.in, b) # {}
    /\ Len(boot.add_edge[m]) >= 2

-----------------------------------------------------------------------------
\* start() next to schedule()

\* v has an entry in some in_queue, out_queue or sub-queue of the master
HasEntry(v) ==
  \/ \E c \in Cpus : \E i \in 1 .. Len(in_queues[c]) : in_queues[c][i] = v
  \/ \E c \in Cpus : \E i \in 1 .. Len(out_queues[c]) : out_queues[c][i] = v
  \/ \E k \in 1 .. Len(master_queue) :
       \E i \in 1 .. Len(master_queue[k]) : master_queue[k][i] = v

\* C39: a vertex with a pending message has an entry in some queue once no
\* schedule call for it is in progress, whatever start() does meanwhile
C39_NoLostVertex ==
  \A v \in Vertices :
    (messages[v].has /\ \A t \in SchedThreads : ~(InSchedule(t) /\ sl.thr[t].vid = v))
       => HasEntry(v)

-----------------------------------------------------------------------------
\* Conservation of messages

\* no schedule, get_next or start call is in progress
Quiescent == \A t \in SchedThreads : sl.thr[t].pc = "idle"

\* the priority of v's entry in the message map, zero if it has none
PendingPrio(v) == IF messages[v].has THEN messages[v].prio ELSE 0

\* C40: with the sum combiner, in every quiescent state and for every vertex v
\* the priorities scheduled for v add up to the priorities delivered with
\* NEW_TASK for v plus the priority of v's pending entry
C40_Conservation ==
  Quiescent =>
     \A v \in Vertices : sl.scheduled[v] = sl.delivered[v] + PendingPrio(v)

\* a message for v was delivered with NEW_TASK and a later one is pending
C40_Witness ==
  /\ Quiescent
  /\ \E v \in Vertices :
       /\ sl.delivered[v] > 0
       /\ messages[v].has
       /\ sl.scheduled[v] = 7

=============================================================================
